---- MODULE Spec2Model ----
\* hihat-a: the lock-free, resizable, open-addressed hash table of hatrack
\* (src/src/hihat-a.c), modelled at the granularity of one shared-memory
\* access per step.  Thread-local computation between two shared accesses is
\* folded into the step of the access that precedes it.
EXTENDS Integers, Sequences, FiniteSets, TLC

\* ------------------------------------------------------------------ bounds
NumThreads == 2      \* threads that may call into the table
NumKeys    == 2      \* hash values used by the concurrent workload
NumItems   == 2      \* distinct non-null item pointers
SeqKeys    == 3      \* hash values used by the single-threaded workload
SeqOps     == 4      \* operations called in the single-threaded workload
GrowKeys   == 4      \* hash values inserted one after the other by the growth workload
MaxStores  == 4      \* stores that can be reachable at once
MinSizeLog == 0      \* log2 of HATRACK_MIN_SIZE
MaxMigrations == 2   \* the migrations of one call are counted up to this
MaxEpoch   == 3      \* top->next_epoch is not issued beyond this
SetKeys    == 3      \* the hash values the entries of a set view are drawn from
UnionLen   == 2      \* entries of a view handed to hatrack_set_union, at most
MaxSetEpoch == 5     \* the sort epochs of those entries are drawn from 1..MaxSetEpoch
IntBits    == 3      \* width of int, scaled down with the epochs (an epoch is wider)
DictKeys   == 2      \* hash values the callers of the dictionary use
MaxDictItems == 3    \* item records the dictionary's callers allocate in all

Threads == 1..NumThreads
Items   == 1..NumItems
NULL    == 0

RECURSIVE Pow2(_)
Pow2(n) == IF n = 0 THEN 1 ELSE 2 * Pow2(n - 1)

HATRACK_MIN_SIZE == Pow2(MinSizeLog)

\* ------------------------------------------------- records and hash values
\* info word of a record: epoch bits 0..61, HIHAT_F_MOVING, HIHAT_F_MOVED.
ZeroInfo == [epoch |-> 0, moving |-> FALSE, moved |-> FALSE]
ZeroRec  == [item |-> NULL, info |-> ZeroInfo]

\* record.info & HIHAT_EPOCH_MASK
HIHAT_EPOCH_MASK(info) == info.epoch
\* record.info & HIHAT_F_MOVING, record.info & HIHAT_F_MOVED
HIHAT_F_MOVING(info) == info.moving
HIHAT_F_MOVED(info)  == info.moved
\* a bare epoch used as an info word (candidate.info = top->next_epoch++)
EpochInfo(e) == [epoch |-> e, moving |-> FALSE, moved |-> FALSE]

hatrack_bucket_unreserved(hv) == hv = 0
hatrack_hashes_eq(a, b)       == a = b
\* hv & last_slot, last_slot being a power of two minus one
hatrack_bucket_index(hv, last_slot) == hv % (last_slot + 1)
\* 75% of the table size, rounded up
hatrack_compute_table_threshold(size) == (3 * size + 3) \div 4

RECURSIVE SmallestFit(_, _)
SmallestFit(size, used) ==
    IF 3 * size >= 4 * used THEN size ELSE SmallestFit(2 * size, used)

\* smallest power of two, at least the minimum size, with 0.75*size >= new_used
hatrack_new_size(last_slot, new_used) == SmallestFit(HATRACK_MIN_SIZE, new_used)

EmptyBucket == [hv |-> 0, record |-> ZeroRec]

\* hihat_a_store_new: a zeroed store of the given size from mmm_alloc_committed;
\* retired stands for the allocation header and counts the mmm_retire calls
hihat_a_store_new(size) ==
    [last_slot  |-> size - 1,
     threshold  |-> hatrack_compute_table_threshold(size),
     used_count |-> 0,
     store_next |-> NULL,
     retired    |-> 0,
     buckets    |-> [b \in 0..(size - 1) |-> EmptyBucket]]

\* ------------------------------------------------------------------- state
VARIABLES
    stores,         \* the reachable stores, oldest first (a store_next chain)
    store_current,  \* top->store_current
    item_count,     \* top->item_count
    next_epoch,     \* top->next_epoch
    th,             \* thread -> program position and locals
    prog,           \* thread -> the calls it will still make (sets to pick from)
    refmap,         \* reference map by call order: hash -> known value, if any
    mmm,            \* the memory manager: epoch, reservations, allocation headers
    set_op,         \* the set operation in progress: position, views, result
    dict            \* the dictionary: its table, its item records, its callers

vars == <<stores, store_current, item_count, next_epoch, th, prog, refmap, mmm,
         set_op, dict>>

Max(a, b) == IF a > b THEN a ELSE b
AllKeys   == 1..Max(NumKeys, Max(SeqKeys, GrowKeys))

\* locals of a thread that is not inside any call
IdleLocals ==
    [pc |-> "idle", op |-> "none", hv1 |-> 0, item |-> NULL,
     self |-> NULL, bix |-> 0, i |-> 0,
     record |-> ZeroRec, candidate |-> ZeroRec,
     old_item |-> NULL, new_item |-> FALSE,
     found |-> FALSE, ret |-> NULL,
     new_store |-> NULL, new_used |-> 0, j |-> 0, hv |-> 0,
     \* observation of the call, kept for the properties
     cas_ok |-> FALSE, displaced |-> ZeroRec, installed |-> ZeroRec,
     seq_free |-> FALSE, seq_known |-> FALSE, seq_exp |-> <<NULL, FALSE>>,
     seq_by |-> "none", seen |-> ZeroRec, d_count |-> 0, d_epoch |-> 0,
     migrations |-> 0,
     \* hihat_a_view: the array filled so far and *num
     view |-> <<>>, num |-> 0]

\* ------------------------------------------------------ the memory manager
\* epoch is the global epoch, reservations the epoch each thread has reserved
\* (0: none), headers the allocation header of every store allocated so far, in
\* allocation order, and base the number of stores that left the state because
\* nothing points to them any more (store n of the state has header base + n).
\* The bookkeeping is followed where a specification asks for it (followed);
\* elsewhere it stays as it is.
mmm_header(epoch) == [write_epoch |-> epoch, retire_epoch |-> 0, freed |-> FALSE]

mmm_init(followed) ==
    [followed     |-> followed,
     epoch        |-> 1,
     reservations |-> [t \in Threads |-> 0],
     headers      |-> <<mmm_header(1)>>,
     base         |-> 0]

\* no set operation is in progress
NoSetOp == [pc |-> "none", view1 |-> <<>>, view2 |-> <<>>, i |-> 0, j |-> 0,
            ret |-> <<>>, proper |-> FALSE, answer |-> FALSE, oob |-> FALSE]

\* hatrack_dict_init: witchhat_init leaves an empty table; no item record is
\* allocated yet (items: for each record allocated so far, how often it went to
\* mmm_retire and to mmm_retire_unused) and no thread is inside a call
hatrack_dict_init ==
    [witchhat_instance |-> [hv \in 1..DictKeys |-> NULL],
     items             |-> <<>>,
     th                |-> [t \in Threads |->
                              [pc |-> "idle", op |-> "none", hv |-> 0,
                               new_item |-> NULL, old_item |-> NULL,
                               added |-> FALSE, ret |-> FALSE]]]

Unfollowed == mmm = mmm_init(FALSE) /\ set_op = NoSetOp /\ dict = hatrack_dict_init

\* mmm_start_basic_op: the thread reserves the current epoch
mmm_start_basic_op(m, t) == [m EXCEPT !.reservations[t] = m.epoch]

\* mmm_end_op: the thread gives its reservation up
mmm_end_reservation(m, t) == [m EXCEPT !.reservations[t] = 0]

\* mmm_alloc_committed: the epoch advances and is the write epoch of the block;
\* a block that is never published goes to mmm_retire_unused and has no header
mmm_alloc_committed(m, published) ==
    [m EXCEPT !.epoch = @ + 1,
              !.headers = IF published THEN Append(@, mmm_header(m.epoch + 1))
                          ELSE @]

\* mmm_retire: the retire epoch of the blocks in R is the next epoch
RECURSIVE mmm_retire(_, _)
mmm_retire(m, R) ==
    IF R = {}
    THEN m
    ELSE LET a == CHOOSE x \in R : TRUE
         IN  mmm_retire([m EXCEPT !.headers[a].retire_epoch = m.epoch + 1],
                        R \ {a})

\* a retired block may be freed when its retire epoch is below every reservation
mmm_reclaimable(m, a) ==
    /\ m.headers[a].retire_epoch # 0
    /\ ~m.headers[a].freed
    /\ \A u \in Threads :
          m.reservations[u] # 0 => m.headers[a].retire_epoch < m.reservations[u]

\* a step of thread t that ends the operation's reservation
mmm_step_unreserved(t, l2, st2, d) ==
    LET l  == th[t]
        m1 == IF l.pc = "mig_install"
              THEN mmm_alloc_committed(mmm, Len(st2) > Len(stores))
              ELSE mmm
        m2 == mmm_retire(m1, {mmm.base + s : s \in
                                {n \in DOMAIN stores :
                                    st2[n].retired > stores[n].retired}})
        m3 == IF l2.pc \in {"idle", "mig_cur"} THEN mmm_end_reservation(m2, t) ELSE m2
    IN  IF mmm.followed THEN [m3 EXCEPT !.base = @ + d] ELSE mmm

\* The calls into the memory manager that a step of thread t makes, from the
\* locals l2 and the stores st2 it leaves, d of which leave the state:
\* hihat_a_store_new allocates, the migrator that published retires, and the
\* return from the public function ends the reservation.
mmm_step(t, l2, st2, d) ==
    LET l  == th[t]
        m1 == IF l.pc = "mig_install"
              THEN mmm_alloc_committed(mmm, Len(st2) > Len(stores))
              ELSE mmm
        m2 == mmm_retire(m1, {mmm.base + s : s \in
                                {n \in DOMAIN stores :
                                    st2[n].retired > stores[n].retired}})
        m3 == IF l2.pc = "idle" THEN mmm_end_reservation(m2, t) ELSE m2
    IN  IF mmm.followed THEN [m3 EXCEPT !.base = @ + d] ELSE mmm

\* a thread's sweep of the retired blocks frees one that may be freed
mmm_empty(t) ==
    /\ mmm.followed
    /\ \E a \in DOMAIN mmm.headers :
          /\ mmm_reclaimable(mmm, a)
          /\ mmm' = [mmm EXCEPT !.headers[a].freed = TRUE]
    /\ UNCHANGED <<stores, store_current, item_count, next_epoch, th, prog, refmap,
                   set_op, dict>>

\* hihat_a_init
hihat_a_init ==
    /\ stores = <<hihat_a_store_new(HATRACK_MIN_SIZE)>>
    /\ store_current = 1
    /\ item_count = 0
    /\ next_epoch = 1
    /\ th = [t \in Threads |-> IdleLocals]
    /\ refmap = [h \in AllKeys |-> [known |-> TRUE, item |-> NULL, by |-> "init"]]

InitTable == hihat_a_init /\ Unfollowed

\* ------------------------------------------------ sequential map semantics
Writers == {"put", "replace", "add", "remove"}
OpNames == Writers \cup {"get", "len"}

\* result <<ret, found>> of an operation on a key whose current item is cur
\* (add returns its boolean as ret; found is not part of its interface)
MapResult(op, cur, item) ==
    IF op = "add" THEN <<cur = NULL, FALSE>> ELSE <<cur, cur # NULL>>

\* item of the key after the operation
MapApply(op, cur, item) ==
    CASE op = "put"     -> item
      [] op = "replace" -> IF cur # NULL THEN item ELSE cur
      [] op = "add"     -> IF cur = NULL THEN item ELSE cur
      [] op = "remove"  -> NULL
      [] OTHER          -> cur

\* ------------------------------------------------------- store bookkeeping
\* the oldest store some thread or the table still points to
MinOf(S) == CHOOSE x \in S : \A y \in S : x <= y
Oldest(cur, locals) ==
    MinOf(({cur} \cup {locals[t].self : t \in Threads}
                 \cup {locals[t].new_store : t \in Threads}) \ {NULL})

\* a store pointer after the d oldest stores are dropped
Shift(p, d) == IF p = NULL THEN NULL ELSE p - d

\* One step of thread t: its new locals, the new stores and top->store_current.
\* Stores older than every pointer held by a thread or by the table can not be
\* reached any more and are dropped from the state.
Update(t, l2, st2, cur2) ==
    LET th2 == [th EXCEPT ![t] = l2]
        d   == Oldest(cur2, th2) - 1
    IN  /\ th' = [u \in Threads |->
                    [th2[u] EXCEPT !.self = Shift(@, d), !.new_store = Shift(@, d)]]
        /\ store_current' = cur2 - d
        /\ stores' = [n \in 1..(Len(st2) - d) |->
                        [st2[n + d] EXCEPT !.store_next = Shift(@, d)]]
        /\ mmm' = mmm_step(t, l2, st2, d)
        /\ UNCHANGED <<set_op, dict>>

\* a step that changes only the locals of t
Local(t, l2) ==
    /\ Update(t, l2, stores, store_current)
    /\ UNCHANGED <<item_count, next_epoch, prog, refmap>>

\* a step that changes the locals of t and the stores
Shared(t, l2, st2) ==
    /\ Update(t, l2, st2, store_current)
    /\ UNCHANGED <<item_count, next_epoch, prog, refmap>>

Bucket(s, b) == stores[s].buckets[b]

\* the frame of a store-level call that starts over on store s
StartProbe(l, s) ==
    [l EXCEPT !.pc = l.op \o "_hv", !.self = s,
              !.bix = hatrack_bucket_index(l.hv1, stores[s].last_slot), !.i = 0,
              !.record = ZeroRec, !.candidate = ZeroRec, !.old_item = NULL,
              !.new_item = FALSE, !.found = FALSE,
              !.new_store = NULL, !.new_used = 0, !.j = 0, !.hv = 0]

\* the call of hihat_a_store_migrate(self, top) from a store-level operation
CallMigrate(l) ==
    [l EXCEPT !.pc = "mig_cur", !.bix = 0, !.i = 0,
              !.record = ZeroRec, !.candidate = ZeroRec, !.old_item = NULL,
              !.new_item = FALSE, !.found = FALSE,
              !.new_store = NULL, !.new_used = 0, !.j = 0, !.hv = 0,
              !.migrations = IF @ < MaxMigrations THEN @ + 1 ELSE @]

\* the store-level operation returns ret with *found = fnd
Return(l, ret, fnd) ==
    [IdleLocals EXCEPT !.pc = "end_op", !.op = l.op, !.hv1 = l.hv1,
                       !.item = l.item, !.ret = ret, !.found = fnd,
                       !.cas_ok = l.cas_ok, !.displaced = l.displaced,
                       !.installed = l.installed, !.seq_known = l.seq_known,
                       !.seq_free = l.seq_free, !.seen = l.seen,
                       !.d_count = l.d_count, !.d_epoch = l.d_epoch,
                       !.seq_exp = l.seq_exp, !.seq_by = l.seq_by,
                       !.migrations = l.migrations]

\* the operation decides its result on the record rec it read in the key's bucket
Seen(l, rec) == [l EXCEPT !.seen = rec]

\* next bucket of a probe: the frame with bix and i advanced, or exhausted
ProbeNext(l) ==
    [l EXCEPT !.bix = (l.bix + 1) % (stores[l.self].last_slot + 1), !.i = l.i + 1]
ProbeDone(l) == l.i + 1 > stores[l.self].last_slot

\* --------------------------------------------------------- the workload
\* another thread has a writer on hash h in flight
OtherWriter(t, h) ==
    \E u \in Threads \ {t} :
        th[u].pc # "idle" /\ th[u].op \in Writers /\ th[u].hv1 = h

UnknownRef == [known |-> FALSE, item |-> NULL, by |-> "none"]

LiveKeys(m) == {h \in AllKeys : m[h].item # NULL}

\* A thread calls op(hv, item), one of the calls its program offers next.
\* seq_free: no writer of the key is in flight; seq_known: moreover the reference
\* map knows the key, and seq_exp is what a sequential map answers.  A writer
\* that overlaps other calls on its key takes their reference away.
Call(t) ==
    /\ th[t].pc = "idle"
    /\ prog[t] # <<>>
    /\ \E c \in Head(prog[t]) :
         LET op    == c.op
             h     == c.hv
             it    == c.item
             free  == IF op \in {"len", "view"}
                      THEN \A u \in Threads \ {t} :
                              th[u].pc = "idle" \/ th[u].op \notin Writers
                      ELSE ~OtherWriter(t, h)
             known == /\ free
                      /\ IF op \in {"len", "view"}
                         THEN \A k \in AllKeys : refmap[k].known
                         ELSE refmap[h].known
             expd  == IF op \in {"len", "view"}
                      THEN <<Cardinality(LiveKeys(refmap)), FALSE>>
                      ELSE MapResult(op, refmap[h].item, it)
             l2    == [IdleLocals EXCEPT
                          !.pc = "start", !.op = op, !.hv1 = h, !.item = it,
                          !.seq_free = free, !.seq_known = known,
                          !.seq_exp = expd,
                          !.seq_by = IF op \in {"len", "view"}
                                     THEN "none" ELSE refmap[h].by]
         IN  /\ th' = [u \in Threads |->
                          IF u = t THEN l2
                          ELSE IF /\ op \in Writers
                                  /\ th[u].pc # "idle"
                                  /\ (th[u].hv1 = h
                                        \/ th[u].op \in {"len", "view"})
                               THEN [th[u] EXCEPT !.seq_free = FALSE,
                                                  !.seq_known = FALSE]
                               ELSE th[u]]
             /\ refmap' = IF op \in Writers /\ ~free
                          THEN [refmap EXCEPT ![h] = UnknownRef]
                          ELSE refmap
    /\ prog' = [prog EXCEPT ![t] = Tail(@)]
    /\ mmm' = IF mmm.followed /\ th'[t].op # "len"
              THEN mmm_start_basic_op(mmm, t) ELSE mmm
    /\ UNCHANGED <<stores, store_current, item_count, next_epoch, set_op, dict>>

\* hihat_a_get/put/replace/add/remove after mmm_start_basic_op:
\* store = atomic_read(&self->store_current), then the store-level call
hihat_a_get(t) ==
    /\ th[t].pc = "start" /\ th[t].op = "get"
    /\ Local(t, StartProbe(th[t], store_current))

hihat_a_put(t) ==
    /\ th[t].pc = "start" /\ th[t].op = "put"
    /\ Local(t, StartProbe(th[t], store_current))

hihat_a_replace(t) ==
    /\ th[t].pc = "start" /\ th[t].op = "replace"
    /\ Local(t, StartProbe(th[t], store_current))

hihat_a_add(t) ==
    /\ th[t].pc = "start" /\ th[t].op = "add"
    /\ Local(t, StartProbe(th[t], store_current))

hihat_a_remove(t) ==
    /\ th[t].pc = "start" /\ th[t].op = "remove"
    /\ Local(t, StartProbe(th[t], store_current))

\* hihat_a_len: return atomic_read(&self->item_count)
hihat_a_len(t) ==
    /\ th[t].pc = "start" /\ th[t].op = "len"
    /\ Local(t, Return(th[t], item_count, FALSE))

\* hihat_a_view(self, num, sort) after mmm_start_basic_op:
\* store = atomic_read(&self->store_current); p = view; cur = store->buckets.
\* The call's item field holds sort: NULL for false, 1 for true.
hihat_a_view(t) ==
    /\ th[t].pc = "start" /\ th[t].op = "view"
    /\ Local(t, [th[t] EXCEPT !.pc = "view_rec", !.self = store_current,
                              !.i = 0, !.view = <<>>, !.num = 0])

\* a scan that copies every bucket, whatever its epoch
hihat_a_view_rec_all(t) ==
    LET l      == th[t]
        record == Bucket(l.self, l.i).record
        view   == Append(l.view,
                         [item       |-> record.item,
                          sort_epoch |-> HIHAT_EPOCH_MASK(record.info)])
    IN  /\ l.pc = "view_rec"
        /\ Local(t,
             IF l.i + 1 > stores[l.self].last_slot
             THEN [l EXCEPT !.pc = "view_ret", !.view = view]
             ELSE [l EXCEPT !.i = l.i + 1, !.view = view])

\* one pass of while (cur < end): record = atomic_read(&cur->record);
\* a record with epoch bits fills *p with them and its item
hihat_a_view_rec(t) ==
    LET l            == th[t]
        record       == Bucket(l.self, l.i).record
        record_epoch == HIHAT_EPOCH_MASK(record.info)
        view         == IF record_epoch = 0
                        THEN l.view
                        ELSE Append(l.view, [item       |-> record.item,
                                             sort_epoch |-> record_epoch])
    IN  /\ l.pc = "view_rec"
        /\ Local(t,
             IF l.i + 1 > stores[l.self].last_slot
             THEN [l EXCEPT !.pc = "view_ret", !.view = view]
             ELSE [l EXCEPT !.i = l.i + 1, !.view = view])

\* qsort(view, num_items, sizeof(hatrack_view_t), hatrack_quicksort_cmp): the
\* arrays it can leave, in ascending sort_epoch
hatrack_quicksort(view) ==
    LET n == Len(view)
    IN  {v \in {[k \in 1..n |-> view[q[k]]] :
                   q \in {p \in [1..n -> 1..n] :
                             \A a, b \in 1..n : a # b => p[a] # p[b]}} :
            \A k \in 1..(n - 1) : v[k].sort_epoch <= v[k + 1].sort_epoch}

\* num_items = p - view; *num = num_items; NULL for an empty view, else the
\* array, sorted if sort; mmm_end_op follows on both paths
hihat_a_view_ret(t) ==
    LET l == th[t]
    IN  /\ l.pc = "view_ret"
        /\ \E v \in (IF Len(l.view) # 0 /\ l.item # NULL
                     THEN hatrack_quicksort(l.view) ELSE {l.view}) :
              Local(t, [Return(l, IF Len(l.view) = 0 THEN NULL ELSE 1, FALSE)
                           EXCEPT !.view = v, !.num = Len(l.view)])

\* what the reference map holds for the key of a writer that returns, having
\* overlapped no other writer of its key: a put leaves its item, a remove that
\* found the key leaves it absent, and any other outcome is followed as long as
\* it is the one the reference expected
RefAfter(l, ref) ==
    LET agrees == l.seq_known /\ <<l.ret, l.found>> = l.seq_exp
    IN  CASE l.op = "put" ->
               [known |-> TRUE, item |-> l.item, by |-> "put"]
          [] l.op = "remove" /\ l.found ->
               [known |-> TRUE, item |-> NULL, by |-> "remove"]
          [] l.op = "add" /\ agrees /\ l.ret = TRUE ->
               [known |-> TRUE, item |-> l.item, by |-> "add"]
          [] l.op = "replace" /\ agrees /\ l.found ->
               [known |-> TRUE, item |-> l.item, by |-> "replace"]
          [] agrees -> ref
          [] OTHER  -> UnknownRef

\* mmm_end_op and the return to the caller
mmm_end_op(t) ==
    LET l == th[t]
    IN  /\ l.pc = "end_op"
        /\ refmap' = IF l.op \in Writers /\ l.seq_free
                     THEN [refmap EXCEPT ![l.hv1] = RefAfter(l, @)]
                     ELSE refmap
        /\ Update(t, IdleLocals, stores, store_current)
        /\ UNCHANGED <<item_count, next_epoch, prog>>

\* ------------------------------------------------------ hihat_a_store_get
\* hv2 = atomic_read(&bucket->hv) and the branches on it
hihat_a_store_get_hv(t) ==
    LET l   == th[t]
        hv2 == Bucket(l.self, l.bix).hv
    IN  /\ l.pc = "get_hv"
        /\ Local(t,
             IF hatrack_bucket_unreserved(hv2)
             THEN Return(l, NULL, FALSE)
             ELSE IF ~hatrack_hashes_eq(l.hv1, hv2)
             THEN IF ProbeDone(l) THEN Return(l, NULL, FALSE)
                                  ELSE ProbeNext(l)
             ELSE [l EXCEPT !.pc = "get_rec"])

\* record = atomic_read(&bucket->record)
\* a get that helps the migration when it reads a record with MOVING
hihat_a_store_get_rec_migrating(t) ==
    LET l      == th[t]
        record == Bucket(l.self, l.bix).record
    IN  /\ l.pc = "get_rec"
        /\ Local(t,
             IF HIHAT_F_MOVING(record.info)
             THEN CallMigrate(l)
             ELSE IF HIHAT_EPOCH_MASK(record.info) # 0
             THEN Return(Seen(l, record), record.item, TRUE)
             ELSE Return(Seen(l, record), NULL, FALSE))

hihat_a_store_get_rec(t) ==
    LET l      == th[t]
        record == Bucket(l.self, l.bix).record
    IN  /\ l.pc = "get_rec"
        /\ Local(t,
             IF HIHAT_EPOCH_MASK(record.info) # 0
             THEN Return(Seen(l, record), record.item, TRUE)
             ELSE Return(Seen(l, record), NULL, FALSE))

\* the stores after bucket b of store s gets hash hv / record r
WithHv(s, b, hv)    == [stores EXCEPT ![s].buckets[b].hv = hv]
WithRecord(s, b, r) == [stores EXCEPT ![s].buckets[b].record = r]

\* a writer's record CAS succeeds: the thread's observations of it
Installed(l, cand) ==
    [l EXCEPT !.cas_ok = TRUE, !.displaced = l.record, !.installed = cand]

\* ------------------------------------------------------ hihat_a_store_put
\* hv2 = atomic_read(&bucket->hv) and the branches on it
hihat_a_store_put_hv(t) ==
    LET l   == th[t]
        hv2 == Bucket(l.self, l.bix).hv
    IN  /\ l.pc = "put_hv"
        /\ Local(t,
             IF hatrack_bucket_unreserved(hv2)
             THEN [l EXCEPT !.pc = "put_hv_cas"]
             ELSE IF ~hatrack_hashes_eq(l.hv1, hv2)
             THEN IF ProbeDone(l) THEN CallMigrate(l) ELSE ProbeNext(l)
             ELSE [l EXCEPT !.pc = "put_rec"])

\* LCAS(&bucket->hv, &hv2, hv1): on failure hv2 is the hash found there
hihat_a_store_put_hv_cas(t) ==
    LET l   == th[t]
        hv2 == Bucket(l.self, l.bix).hv
    IN  /\ l.pc = "put_hv_cas"
        /\ IF hatrack_bucket_unreserved(hv2)
           THEN Shared(t, [l EXCEPT !.pc = "put_used"],
                       WithHv(l.self, l.bix, l.hv1))
           ELSE Local(t,
                  IF ~hatrack_hashes_eq(l.hv1, hv2)
                  THEN IF ProbeDone(l) THEN CallMigrate(l) ELSE ProbeNext(l)
                  ELSE [l EXCEPT !.pc = "put_rec"])

\* atomic_fetch_add(&self->used_count, 1) >= self->threshold
hihat_a_store_put_used(t) ==
    LET l == th[t]
        s == l.self
    IN  /\ l.pc = "put_used"
        /\ Shared(t,
             IF stores[s].used_count >= stores[s].threshold
             THEN CallMigrate(l)
             ELSE [l EXCEPT !.pc = "put_rec"],
             [stores EXCEPT ![s].used_count = @ + 1])

\* found_bucket: record = atomic_read(&bucket->record)
\* a put that skips "if (record.info & HIHAT_F_MOVING) goto migrate_and_retry"
hihat_a_store_put_rec_unfrozen(t) ==
    LET l      == th[t]
        record == Bucket(l.self, l.bix).record
    IN  /\ l.pc = "put_rec"
        /\ Local(t,
             IF HIHAT_EPOCH_MASK(record.info) # 0
             THEN [l EXCEPT !.pc = "put_cas", !.record = record,
                            !.found = TRUE, !.old_item = record.item,
                            !.new_item = FALSE,
                            !.candidate = [item |-> l.item, info |-> record.info]]
             ELSE [l EXCEPT !.pc = "put_epoch_rd", !.record = record,
                            !.found = FALSE, !.old_item = NULL,
                            !.new_item = TRUE])

hihat_a_store_put_rec(t) ==
    LET l      == th[t]
        record == Bucket(l.self, l.bix).record
    IN  /\ l.pc = "put_rec"
        /\ Local(t,
             IF HIHAT_F_MOVING(record.info)
             THEN CallMigrate(l)
             ELSE IF HIHAT_EPOCH_MASK(record.info) # 0
             THEN [l EXCEPT !.pc = "put_cas", !.record = record,
                            !.found = TRUE, !.old_item = record.item,
                            !.new_item = FALSE,
                            !.candidate = [item |-> l.item, info |-> record.info]]
             ELSE [l EXCEPT !.pc = "put_epoch_rd", !.record = record,
                            !.found = FALSE, !.old_item = NULL,
                            !.new_item = TRUE])

\* candidate.info = top->next_epoch++ : the load of the plain increment
hihat_a_store_put_epoch_rd(t) ==
    LET l == th[t]
    IN  /\ l.pc = "put_epoch_rd"
        /\ next_epoch <= MaxEpoch
        /\ Local(t, [l EXCEPT !.pc = "put_epoch_wr",
                              !.candidate = [item |-> l.item,
                                             info |-> EpochInfo(next_epoch)]])

\* candidate.info = top->next_epoch++ : the store of the plain increment
hihat_a_store_put_epoch_wr(t) ==
    LET l == th[t]
    IN  /\ l.pc = "put_epoch_wr"
        /\ next_epoch' = l.candidate.info.epoch + 1
        /\ Update(t, [l EXCEPT !.pc = "put_cas", !.d_epoch = @ + 1],
                  stores, store_current)
        /\ UNCHANGED <<item_count, prog, refmap>>

\* LCAS(&bucket->record, &record, candidate) and what follows it
hihat_a_store_put_cas(t) ==
    LET l   == th[t]
        cur == Bucket(l.self, l.bix).record
    IN  /\ l.pc = "put_cas"
        /\ IF cur = l.record
           THEN /\ Update(t,
                     IF l.new_item
                     THEN [Installed(l, l.candidate) EXCEPT !.pc = "put_count"]
                     ELSE Return(Installed(l, l.candidate), l.old_item, l.found),
                     WithRecord(l.self, l.bix, l.candidate),
                     store_current)
                /\ UNCHANGED <<item_count, next_epoch, prog, refmap>>
           ELSE Local(t,
                  IF HIHAT_F_MOVING(cur.info)
                  THEN CallMigrate(l)
                  ELSE Return(Seen(l, cur), l.item, l.found))

\* atomic_fetch_add(&top->item_count, 1); return old_item
hihat_a_store_put_count(t) ==
    LET l == th[t]
    IN  /\ l.pc = "put_count"
        /\ item_count' = item_count + 1
        /\ Update(t, Return([l EXCEPT !.d_count = @ + 1], l.old_item, l.found),
                  stores, store_current)
        /\ UNCHANGED <<next_epoch, prog, refmap>>

\* -------------------------------------------------- hihat_a_store_replace
\* hv2 = atomic_read(&bucket->hv) and the branches on it
hihat_a_store_replace_hv(t) ==
    LET l   == th[t]
        hv2 == Bucket(l.self, l.bix).hv
    IN  /\ l.pc = "replace_hv"
        /\ Local(t,
             IF hatrack_bucket_unreserved(hv2)
             THEN Return(l, NULL, FALSE)
             ELSE IF ~hatrack_hashes_eq(l.hv1, hv2)
             THEN IF ProbeDone(l) THEN Return(l, NULL, FALSE)
                                  ELSE ProbeNext(l)
             ELSE [l EXCEPT !.pc = "replace_rec"])

\* a replace that skips "if (!record.info) goto not_found"
hihat_a_store_replace_rec_unchecked(t) ==
    LET l      == th[t]
        record == Bucket(l.self, l.bix).record
    IN  /\ l.pc = "replace_rec"
        /\ Local(t,
             IF HIHAT_F_MOVING(record.info)
             THEN CallMigrate(l)
             ELSE [l EXCEPT !.pc = "replace_cas", !.record = record,
                            !.old_item = record.item,
                            !.candidate = [item |-> l.item, info |-> record.info]])

\* found_bucket: record = atomic_read(&bucket->record)
hihat_a_store_replace_rec(t) ==
    LET l      == th[t]
        record == Bucket(l.self, l.bix).record
    IN  /\ l.pc = "replace_rec"
        /\ Local(t,
             IF HIHAT_F_MOVING(record.info)
             THEN CallMigrate(l)
             ELSE IF record.info = ZeroInfo
             THEN Return(Seen(l, record), NULL, FALSE)
             ELSE [l EXCEPT !.pc = "replace_cas", !.record = record,
                            !.old_item = record.item,
                            !.candidate = [item |-> l.item, info |-> record.info]])

\* while (!LCAS(&bucket->record, &record, candidate)): one attempt
hihat_a_store_replace_cas(t) ==
    LET l   == th[t]
        cur == Bucket(l.self, l.bix).record
    IN  /\ l.pc = "replace_cas"
        /\ IF cur = l.record
           THEN /\ Update(t,
                     Return(Installed(l, l.candidate), l.record.item, TRUE),
                     WithRecord(l.self, l.bix, l.candidate),
                     store_current)
                /\ UNCHANGED <<item_count, next_epoch, prog, refmap>>
           ELSE Local(t,
                  IF HIHAT_F_MOVING(cur.info)
                  THEN CallMigrate(l)
                  ELSE IF cur.info = ZeroInfo
                  THEN Return(Seen(l, cur), NULL, FALSE)
                  ELSE [l EXCEPT !.record = cur])

\* ------------------------------------------------------ hihat_a_store_add
\* hv2 = atomic_read(&bucket->hv) and the branches on it
hihat_a_store_add_hv(t) ==
    LET l   == th[t]
        hv2 == Bucket(l.self, l.bix).hv
    IN  /\ l.pc = "add_hv"
        /\ Local(t,
             IF hatrack_bucket_unreserved(hv2)
             THEN [l EXCEPT !.pc = "add_hv_cas"]
             ELSE IF ~hatrack_hashes_eq(l.hv1, hv2)
             THEN IF ProbeDone(l) THEN CallMigrate(l) ELSE ProbeNext(l)
             ELSE [l EXCEPT !.pc = "add_rec"])

\* LCAS(&bucket->hv, &hv2, hv1): on failure hv2 is the hash found there
hihat_a_store_add_hv_cas(t) ==
    LET l   == th[t]
        hv2 == Bucket(l.self, l.bix).hv
    IN  /\ l.pc = "add_hv_cas"
        /\ IF hatrack_bucket_unreserved(hv2)
           THEN Shared(t, [l EXCEPT !.pc = "add_used"],
                       WithHv(l.self, l.bix, l.hv1))
           ELSE Local(t,
                  IF ~hatrack_hashes_eq(l.hv1, hv2)
                  THEN IF ProbeDone(l) THEN CallMigrate(l) ELSE ProbeNext(l)
                  ELSE [l EXCEPT !.pc = "add_rec"])

\* atomic_fetch_add(&self->used_count, 1) >= self->threshold
hihat_a_store_add_used(t) ==
    LET l == th[t]
        s == l.self
    IN  /\ l.pc = "add_used"
        /\ Shared(t,
             IF stores[s].used_count >= stores[s].threshold
             THEN CallMigrate(l)
             ELSE [l EXCEPT !.pc = "add_rec"],
             [stores EXCEPT ![s].used_count = @ + 1])

\* an add that skips "if (record.info) return false"
hihat_a_store_add_rec_unchecked(t) ==
    LET l      == th[t]
        record == Bucket(l.self, l.bix).record
    IN  /\ l.pc = "add_rec"
        /\ Local(t,
             IF HIHAT_F_MOVING(record.info)
             THEN CallMigrate(l)
             ELSE [l EXCEPT !.pc = "add_epoch_rd", !.record = record])

\* found_bucket: record = atomic_read(&bucket->record)
hihat_a_store_add_rec(t) ==
    LET l      == th[t]
        record == Bucket(l.self, l.bix).record
    IN  /\ l.pc = "add_rec"
        /\ Local(t,
             IF HIHAT_F_MOVING(record.info)
             THEN CallMigrate(l)
             ELSE IF record.info # ZeroInfo
             THEN Return(Seen(l, record), FALSE, FALSE)
             ELSE [l EXCEPT !.pc = "add_epoch_rd", !.record = record])

\* candidate.info = top->next_epoch++ : the load of the plain increment
hihat_a_store_add_epoch_rd(t) ==
    LET l == th[t]
    IN  /\ l.pc = "add_epoch_rd"
        /\ next_epoch <= MaxEpoch
        /\ Local(t, [l EXCEPT !.pc = "add_epoch_wr",
                              !.candidate = [item |-> l.item,
                                             info |-> EpochInfo(next_epoch)]])

\* candidate.info = top->next_epoch++ : the store of the plain increment
hihat_a_store_add_epoch_wr(t) ==
    LET l == th[t]
    IN  /\ l.pc = "add_epoch_wr"
        /\ next_epoch' = l.candidate.info.epoch + 1
        /\ Update(t, [l EXCEPT !.pc = "add_cas", !.d_epoch = @ + 1],
                  stores, store_current)
        /\ UNCHANGED <<item_count, prog, refmap>>

\* LCAS(&bucket->record, &record, candidate) and what follows it
hihat_a_store_add_cas(t) ==
    LET l   == th[t]
        cur == Bucket(l.self, l.bix).record
    IN  /\ l.pc = "add_cas"
        /\ IF cur = l.record
           THEN /\ Update(t,
                     [Installed(l, l.candidate) EXCEPT !.pc = "add_count"],
                     WithRecord(l.self, l.bix, l.candidate),
                     store_current)
                /\ UNCHANGED <<item_count, next_epoch, prog, refmap>>
           ELSE Local(t,
                  IF HIHAT_F_MOVING(cur.info)
                  THEN CallMigrate(l)
                  ELSE Return(Seen(l, cur), FALSE, FALSE))

\* atomic_fetch_add(&top->item_count, 1); return true
hihat_a_store_add_count(t) ==
    LET l == th[t]
    IN  /\ l.pc = "add_count"
        /\ item_count' = item_count + 1
        /\ Update(t, Return([l EXCEPT !.d_count = @ + 1], TRUE, FALSE),
                  stores, store_current)
        /\ UNCHANGED <<next_epoch, prog, refmap>>

\* --------------------------------------------------- hihat_a_store_remove
\* hv2 = atomic_read(&bucket->hv) and the branches on it
hihat_a_store_remove_hv(t) ==
    LET l   == th[t]
        hv2 == Bucket(l.self, l.bix).hv
    IN  /\ l.pc = "remove_hv"
        /\ Local(t,
             IF hatrack_bucket_unreserved(hv2)
             THEN Return(l, NULL, FALSE)
             ELSE IF ~hatrack_hashes_eq(l.hv1, hv2)
             THEN IF ProbeDone(l) THEN Return(l, NULL, FALSE)
                                  ELSE ProbeNext(l)
             ELSE [l EXCEPT !.pc = "remove_rec"])

\* a remove that skips "if (!record.info) ... return NULL"
hihat_a_store_remove_rec_unchecked(t) ==
    LET l      == th[t]
        record == Bucket(l.self, l.bix).record
    IN  /\ l.pc = "remove_rec"
        /\ Local(t,
             IF HIHAT_F_MOVING(record.info)
             THEN CallMigrate(l)
             ELSE [l EXCEPT !.pc = "remove_cas", !.record = record,
                            !.old_item = record.item, !.candidate = ZeroRec])

\* found_bucket: record = atomic_read(&bucket->record)
hihat_a_store_remove_rec(t) ==
    LET l      == th[t]
        record == Bucket(l.self, l.bix).record
    IN  /\ l.pc = "remove_rec"
        /\ Local(t,
             IF HIHAT_F_MOVING(record.info)
             THEN CallMigrate(l)
             ELSE IF record.info = ZeroInfo
             THEN Return(Seen(l, record), NULL, FALSE)
             ELSE [l EXCEPT !.pc = "remove_cas", !.record = record,
                            !.old_item = record.item, !.candidate = ZeroRec])

\* LCAS(&bucket->record, &record, candidate) and what follows it
\* a remove whose successful compare-and-swap also gives the hash slot back
hihat_a_store_remove_cas_unreserve(t) ==
    LET l   == th[t]
        cur == Bucket(l.self, l.bix).record
    IN  /\ l.pc = "remove_cas"
        /\ IF cur = l.record
           THEN /\ Update(t,
                     [Installed(l, l.candidate) EXCEPT !.pc = "remove_count"],
                     [stores EXCEPT ![l.self].buckets[l.bix] =
                                        [hv |-> 0, record |-> l.candidate]],
                     store_current)
                /\ UNCHANGED <<item_count, next_epoch, prog, refmap>>
           ELSE Local(t,
                  IF HIHAT_F_MOVING(cur.info)
                  THEN CallMigrate(l)
                  ELSE Return(Seen(l, cur), NULL, FALSE))

hihat_a_store_remove_cas(t) ==
    LET l   == th[t]
        cur == Bucket(l.self, l.bix).record
    IN  /\ l.pc = "remove_cas"
        /\ IF cur = l.record
           THEN /\ Update(t,
                     [Installed(l, l.candidate) EXCEPT !.pc = "remove_count"],
                     WithRecord(l.self, l.bix, l.candidate),
                     store_current)
                /\ UNCHANGED <<item_count, next_epoch, prog, refmap>>
           ELSE Local(t,
                  IF HIHAT_F_MOVING(cur.info)
                  THEN CallMigrate(l)
                  ELSE Return(Seen(l, cur), NULL, FALSE))

\* a remove that skips atomic_fetch_sub(&top->item_count, 1)
hihat_a_store_remove_count_skipped(t) ==
    LET l == th[t]
    IN  /\ l.pc = "remove_count"
        /\ Local(t, Return(l, l.old_item, TRUE))

\* atomic_fetch_sub(&top->item_count, 1); *found = true; return old_item
hihat_a_store_remove_count(t) ==
    LET l == th[t]
    IN  /\ l.pc = "remove_count"
        /\ item_count' = item_count - 1
        /\ Update(t, Return([l EXCEPT !.d_count = @ - 1], l.old_item, TRUE),
                  stores, store_current)
        /\ UNCHANGED <<next_epoch, prog, refmap>>

\* -------------------------------------------------- hihat_a_store_migrate
\* migrate returns store s: the caller calls its store-level operation on s
\* a retry that goes on with the store the operation entered the migration with
MigrateReturn_same(l, s) == StartProbe(l, l.self)

MigrateReturn(l, s) == StartProbe(l, s)

\* new_store = atomic_read(&top->store_current); if (new_store != self) return
hihat_a_store_migrate_cur(t) ==
    LET l == th[t]
    IN  /\ l.pc = "mig_cur"
        /\ Local(t,
             IF store_current # l.self
             THEN MigrateReturn(l, store_current)
             ELSE [l EXCEPT !.pc = "mig_next", !.new_used = 0,
                            !.new_store = store_current])

\* new_store = atomic_read(&self->store_next); if (new_store) sleep, else freeze
hihat_a_store_migrate_next(t) ==
    LET l   == th[t]
        nxt == stores[l.self].store_next
    IN  /\ l.pc = "mig_next"
        /\ Local(t,
             IF nxt # NULL
             THEN [l EXCEPT !.pc = "mig_sleep1_next", !.new_store = nxt]
             ELSE [l EXCEPT !.pc = "mig_frz_rd", !.new_store = NULL, !.i = 0])

\* nanosleep; new_store = atomic_read(&self->store_next)  (first wait)
hihat_a_store_migrate_sleep1_next(t) ==
    LET l == th[t]
    IN  /\ l.pc = "mig_sleep1_next"
        /\ Local(t, [l EXCEPT !.pc = "mig_sleep1_cur",
                              !.new_store = stores[l.self].store_next])

\* a first wait that returns store_next without comparing it with
\* top->store_current
hihat_a_store_migrate_sleep1_cur_early(t) ==
    LET l == th[t]
    IN  /\ l.pc = "mig_sleep1_cur"
        /\ Local(t,
             IF l.new_store # NULL
             THEN MigrateReturn(l, l.new_store)
             ELSE [l EXCEPT !.pc = "mig_sleep2_next"])

\* if (new_store == atomic_read(&top->store_current)) return new_store
hihat_a_store_migrate_sleep1_cur(t) ==
    LET l == th[t]
    IN  /\ l.pc = "mig_sleep1_cur"
        /\ Local(t,
             IF l.new_store = store_current
             THEN MigrateReturn(l, l.new_store)
             ELSE [l EXCEPT !.pc = "mig_sleep2_next"])

\* nanosleep; new_store = atomic_read(&self->store_next)  (second wait)
hihat_a_store_migrate_sleep2_next(t) ==
    LET l == th[t]
    IN  /\ l.pc = "mig_sleep2_next"
        /\ Local(t, [l EXCEPT !.pc = "mig_sleep2_cur",
                              !.new_store = stores[l.self].store_next])

\* if (new_store == atomic_read(&top->store_current)) return new_store;
\* else goto have_new_store
hihat_a_store_migrate_sleep2_cur(t) ==
    LET l == th[t]
    IN  /\ l.pc = "mig_sleep2_cur"
        /\ Local(t,
             IF l.new_store = store_current
             THEN MigrateReturn(l, l.new_store)
             ELSE [l EXCEPT !.pc = "mig_copy_rd", !.new_used = 0, !.i = 0])

\* a freeze loop that marks a tombstone or an empty record as moved only
FreezeInfo_moved(info) ==
    IF info # ZeroInfo
    THEN [info EXCEPT !.moving = TRUE]
    ELSE [epoch |-> 0, moving |-> FALSE, moved |-> TRUE]

\* the info the freeze loop wants to install over a record without MOVING
FreezeInfo(info) ==
    IF info # ZeroInfo
    THEN [info EXCEPT !.moving = TRUE]
    ELSE [epoch |-> 0, moving |-> TRUE, moved |-> TRUE]

\* a freeze loop that counts every bucket, live or not
FreezeCounted_all(l, record) ==
    LET used == l.new_used + 1
    IN  IF l.i + 1 > stores[l.self].last_slot
        THEN [l EXCEPT !.pc = "mig_next2", !.new_used = used, !.i = 0,
                       !.record = ZeroRec, !.candidate = ZeroRec]
        ELSE [l EXCEPT !.pc = "mig_frz_rd", !.new_used = used, !.i = l.i + 1,
                       !.record = ZeroRec, !.candidate = ZeroRec]

\* the freeze loop is done with bucket i, whose record it last saw as record
FreezeCounted(l, record) ==
    LET used == IF HIHAT_EPOCH_MASK(record.info) # 0
                THEN l.new_used + 1 ELSE l.new_used
    IN  IF l.i + 1 > stores[l.self].last_slot
        THEN [l EXCEPT !.pc = "mig_next2", !.new_used = used, !.i = 0,
                       !.record = ZeroRec, !.candidate = ZeroRec]
        ELSE [l EXCEPT !.pc = "mig_frz_rd", !.new_used = used, !.i = l.i + 1,
                       !.record = ZeroRec, !.candidate = ZeroRec]

\* record = atomic_read(&bucket->record); candidate_record.item = record.item;
\* first pass through the body of the do loop
hihat_a_store_migrate_freeze_rd(t) ==
    LET l      == th[t]
        record == Bucket(l.self, l.i).record
    IN  /\ l.pc = "mig_frz_rd"
        /\ Local(t,
             IF HIHAT_F_MOVING(record.info)
             THEN FreezeCounted(l, record)
             ELSE [l EXCEPT !.pc = "mig_frz_cas", !.record = record,
                            !.candidate = [item |-> record.item,
                                           info |-> FreezeInfo(record.info)]])

\* a freeze loop that does not try again after a failed compare-and-swap
hihat_a_store_migrate_freeze_cas_once(t) ==
    LET l   == th[t]
        cur == Bucket(l.self, l.i).record
    IN  /\ l.pc = "mig_frz_cas"
        /\ IF cur = l.record
           THEN Shared(t, FreezeCounted(l, l.record),
                       WithRecord(l.self, l.i, l.candidate))
           ELSE Local(t, FreezeCounted(l, cur))

\* while (!LCAS(&bucket->record, &record, candidate_record)): one attempt; a
\* failed attempt runs the loop body again with the record found, and the
\* candidate keeps the item of the first read
hihat_a_store_migrate_freeze_cas(t) ==
    LET l   == th[t]
        cur == Bucket(l.self, l.i).record
    IN  /\ l.pc = "mig_frz_cas"
        /\ IF cur = l.record
           THEN Shared(t, FreezeCounted(l, l.record),
                       WithRecord(l.self, l.i, l.candidate))
           ELSE Local(t,
                  IF HIHAT_F_MOVING(cur.info)
                  THEN FreezeCounted(l, cur)
                  ELSE [l EXCEPT !.record = cur,
                                 !.candidate = [item |-> l.candidate.item,
                                                info |-> FreezeInfo(cur.info)]])

\* have_new_store: new_used = 0 and the copy loop starts
HaveNewStore(l, s) ==
    [l EXCEPT !.pc = "mig_copy_rd", !.new_store = s, !.new_used = 0, !.i = 0]

\* new_store = atomic_read(&self->store_next) after the freeze loop
hihat_a_store_migrate_next2(t) ==
    LET l   == th[t]
        nxt == stores[l.self].store_next
    IN  /\ l.pc = "mig_next2"
        /\ Local(t,
             IF nxt = NULL
             THEN [l EXCEPT !.pc = "mig_install"]
             ELSE HaveNewStore(l, nxt))

\* an install that stores its candidate into store_next without comparing
hihat_a_store_migrate_install_blind(t) ==
    LET l        == th[t]
        new_size == hatrack_new_size(stores[l.self].last_slot, l.new_used)
        c        == Len(stores) + 1
    IN  /\ l.pc = "mig_install"
        /\ Len(stores) < MaxStores
        /\ Shared(t, HaveNewStore(l, c),
                  [Append(stores, hihat_a_store_new(new_size))
                      EXCEPT ![l.self].store_next = c])

\* new_size = hatrack_new_size(...); candidate_store = hihat_a_store_new(new_size);
\* LCAS(&self->store_next, &new_store, candidate_store); the loser hands its
\* candidate to mmm_retire_unused and goes on with the winner's store
hihat_a_store_migrate_install(t) ==
    LET l        == th[t]
        nxt      == stores[l.self].store_next
        new_size == hatrack_new_size(stores[l.self].last_slot, l.new_used)
        c        == Len(stores) + 1
    IN  /\ l.pc = "mig_install"
        /\ IF nxt = NULL
           THEN /\ Len(stores) < MaxStores
                /\ Shared(t, HaveNewStore(l, c),
                          [Append(stores, hihat_a_store_new(new_size))
                              EXCEPT ![l.self].store_next = c])
           ELSE Local(t, HaveNewStore(l, nxt))

\* the copy loop goes on to the next bucket, or is over
CopyNext(l) ==
    IF l.i + 1 > stores[l.self].last_slot
    THEN [l EXCEPT !.pc = "mig_used", !.i = 0, !.record = ZeroRec,
                   !.hv = 0, !.bix = 0, !.j = 0]
    ELSE [l EXCEPT !.pc = "mig_copy_rd", !.i = l.i + 1, !.record = ZeroRec,
                   !.hv = 0, !.bix = 0, !.j = 0]

\* a copy loop that does not skip the records marked MOVED
hihat_a_store_migrate_copy_rd_all(t) ==
    LET l      == th[t]
        record == Bucket(l.self, l.i).record
        l2     == [l EXCEPT !.new_used =
                       IF HIHAT_EPOCH_MASK(record.info) # 0 THEN @ + 1 ELSE @]
    IN  /\ l.pc = "mig_copy_rd"
        /\ Local(t, [l2 EXCEPT !.pc = "mig_copy_hv", !.record = record])

\* record = atomic_read(&bucket->record); count it; skip it if MOVED
hihat_a_store_migrate_copy_rd(t) ==
    LET l      == th[t]
        record == Bucket(l.self, l.i).record
        l2     == [l EXCEPT !.new_used =
                       IF HIHAT_EPOCH_MASK(record.info) # 0 THEN @ + 1 ELSE @]
    IN  /\ l.pc = "mig_copy_rd"
        /\ Local(t,
             IF HIHAT_F_MOVED(record.info)
             THEN CopyNext(l2)
             ELSE [l2 EXCEPT !.pc = "mig_copy_hv", !.record = record])

\* hv = atomic_read(&bucket->hv); bix = hatrack_bucket_index(hv, new_store->last_slot)
hihat_a_store_migrate_copy_hv(t) ==
    LET l  == th[t]
        hv == Bucket(l.self, l.i).hv
    IN  /\ l.pc = "mig_copy_hv"
        /\ Local(t, [l EXCEPT !.pc = "mig_new_hv", !.hv = hv, !.j = 0,
                       !.bix = hatrack_bucket_index(
                                   hv, stores[l.new_store].last_slot)])

\* the inner probe moves on; when it runs out, new_bucket stays the last bucket
\* looked at
NewProbeNext(l) ==
    IF l.j + 1 > stores[l.new_store].last_slot
    THEN [l EXCEPT !.pc = "mig_new_rec"]
    ELSE [l EXCEPT !.pc = "mig_new_hv", !.j = l.j + 1,
                   !.bix = (l.bix + 1) % (stores[l.new_store].last_slot + 1)]

\* expected_hv = atomic_read(&new_bucket->hv) and the branches on it
hihat_a_store_migrate_new_hv(t) ==
    LET l           == th[t]
        expected_hv == Bucket(l.new_store, l.bix).hv
    IN  /\ l.pc = "mig_new_hv"
        /\ Local(t,
             IF hatrack_bucket_unreserved(expected_hv)
             THEN [l EXCEPT !.pc = "mig_new_hv_cas"]
             ELSE IF ~hatrack_hashes_eq(expected_hv, l.hv)
             THEN NewProbeNext(l)
             ELSE [l EXCEPT !.pc = "mig_new_rec"])

\* a re-probe that moves on after a lost LCAS without comparing the hash it found
hihat_a_store_migrate_new_hv_cas_blind(t) ==
    LET l           == th[t]
        expected_hv == Bucket(l.new_store, l.bix).hv
    IN  /\ l.pc = "mig_new_hv_cas"
        /\ IF hatrack_bucket_unreserved(expected_hv)
           THEN Shared(t, [l EXCEPT !.pc = "mig_new_rec"],
                       WithHv(l.new_store, l.bix, l.hv))
           ELSE Local(t, NewProbeNext(l))

\* LCAS(&new_bucket->hv, &expected_hv, hv)
hihat_a_store_migrate_new_hv_cas(t) ==
    LET l           == th[t]
        expected_hv == Bucket(l.new_store, l.bix).hv
    IN  /\ l.pc = "mig_new_hv_cas"
        /\ IF hatrack_bucket_unreserved(expected_hv)
           THEN Shared(t, [l EXCEPT !.pc = "mig_new_rec"],
                       WithHv(l.new_store, l.bix, l.hv))
           ELSE Local(t,
                  IF ~hatrack_hashes_eq(expected_hv, l.hv)
                  THEN NewProbeNext(l)
                  ELSE [l EXCEPT !.pc = "mig_new_rec"])

\* a copy that loses the epoch of the record
CopyCandidate_no_epoch(record) ==
    [item |-> record.item, info |-> ZeroInfo]

\* candidate_record.info = record.info & HIHAT_EPOCH_MASK;
\* candidate_record.item = record.item
CopyCandidate(record) ==
    [item |-> record.item, info |-> EpochInfo(HIHAT_EPOCH_MASK(record.info))]

\* LCAS(&new_bucket->record, &expected_record, candidate_record) with
\* expected (NULL, 0)
hihat_a_store_migrate_new_rec(t) ==
    LET l    == th[t]
        cur  == Bucket(l.new_store, l.bix).record
        cand == CopyCandidate(l.record)
    IN  /\ l.pc = "mig_new_rec"
        /\ Shared(t, [l EXCEPT !.pc = "mig_moved"],
                  IF cur = ZeroRec
                  THEN WithRecord(l.new_store, l.bix, cand)
                  ELSE stores)

\* a copy loop that installs HIHAT_F_MOVED alone over the epoch bits
hihat_a_store_migrate_moved_only(t) ==
    LET l    == th[t]
        cur  == Bucket(l.self, l.i).record
        cand == [item |-> l.record.item,
                 info |-> [l.record.info EXCEPT !.moving = FALSE,
                                                !.moved = TRUE]]
    IN  /\ l.pc = "mig_moved"
        /\ Shared(t, CopyNext(l),
                  IF cur = l.record
                  THEN WithRecord(l.self, l.i, cand)
                  ELSE stores)

\* LCAS(&bucket->record, &record, record | HIHAT_F_MOVED)
hihat_a_store_migrate_moved(t) ==
    LET l    == th[t]
        cur  == Bucket(l.self, l.i).record
        cand == [item |-> l.record.item,
                 info |-> [l.record.info EXCEPT !.moved = TRUE]]
    IN  /\ l.pc = "mig_moved"
        /\ Shared(t, CopyNext(l),
                  IF cur = l.record
                  THEN WithRecord(l.self, l.i, cand)
                  ELSE stores)

\* LCAS(&new_store->used_count, &expected_used, new_used) with expected 0
\* a migrator that stores new_used into used_count without comparing
hihat_a_store_migrate_used_store(t) ==
    LET l == th[t]
        n == l.new_store
    IN  /\ l.pc = "mig_used"
        /\ Shared(t, [l EXCEPT !.pc = "mig_publish"],
                  [stores EXCEPT ![n].used_count = l.new_used])

hihat_a_store_migrate_used(t) ==
    LET l == th[t]
        n == l.new_store
    IN  /\ l.pc = "mig_used"
        /\ Shared(t, [l EXCEPT !.pc = "mig_publish"],
                  IF stores[n].used_count = 0
                  THEN [stores EXCEPT ![n].used_count = l.new_used]
                  ELSE stores)

\* a publish that retires self whether or not its compare-and-swap succeeded
hihat_a_store_migrate_publish_always(t) ==
    LET l == th[t]
    IN  /\ l.pc = "mig_publish"
        /\ Update(t, [l EXCEPT !.pc = "mig_ret"],
                  [stores EXCEPT ![l.self].retired = @ + 1],
                  IF store_current = l.self THEN l.new_store ELSE store_current)
        /\ UNCHANGED <<item_count, next_epoch, prog, refmap>>

\* if (LCAS(&top->store_current, &self, new_store)) mmm_retire(self)
hihat_a_store_migrate_publish(t) ==
    LET l == th[t]
    IN  /\ l.pc = "mig_publish"
        /\ IF store_current = l.self
           THEN Update(t, [l EXCEPT !.pc = "mig_ret"],
                       [stores EXCEPT ![l.self].retired = @ + 1], l.new_store)
           ELSE Update(t, [l EXCEPT !.pc = "mig_ret"], stores, store_current)
        /\ UNCHANGED <<item_count, next_epoch, prog, refmap>>

\* return top->store_current
hihat_a_store_migrate_ret(t) ==
    LET l == th[t]
    IN  /\ l.pc = "mig_ret"
        /\ Local(t, MigrateReturn(l, store_current))

\* -------------------------------------------------------- hihat_a_delete
\* mmm_retire(atomic_load(&self->store_current)).  The call takes no
\* reservation and frees the top next, so it is made by the last user of the
\* table: every thread has returned and no call is left.
hihat_a_delete(t) ==
    /\ store_current # NULL
    /\ \A u \in Threads : th[u].pc = "idle" /\ prog[u] = <<>>
    /\ Update(t, [th[t] EXCEPT !.pc = "delete_free", !.op = "delete",
                               !.self = store_current],
              [stores EXCEPT ![store_current].retired = @ + 1], store_current)
    /\ UNCHANGED <<item_count, next_epoch, prog, refmap>>

\* free(self): the top is gone, and with it the last pointer to the store
hihat_a_delete_free(t) ==
    /\ th[t].pc = "delete_free"
    /\ th' = [th EXCEPT ![t] = IdleLocals]
    /\ stores' = <<>>
    /\ store_current' = NULL
    /\ UNCHANGED <<item_count, next_epoch, prog, refmap, mmm, set_op, dict>>

\* ---------------------------------------------------------------- set.c
\* hatrack_hash_gt on the hash values of the model
hatrack_hash_gt(hv1, hv2) == hv1 > hv2

\* qsort(view, num, sizeof(hatrack_set_view_t), hatrack_set_hv_sort_cmp): the
\* entries of the view by ascending hash value (the hash values of a view are
\* distinct; the comparison aborts on equal ones)
hatrack_set_hv_sort(view) ==
    [n \in 1..Len(view) |->
        CHOOSE e \in {view[k] : k \in 1..Len(view)} :
            Cardinality({k \in 1..Len(view) :
                            ~hatrack_hash_gt(view[k].hv, e.hv)}) = n]

\* woolhat_add(&ret->woolhat_instance, hv, item) on the entries of the new set:
\* the item is added unless the hash value is present
woolhat_add(entries, hv, item) ==
    IF \E k \in 1..Len(entries) : hatrack_hashes_eq(entries[k].hv, hv)
    THEN entries
    ELSE Append(entries, [hv |-> hv, item |-> item])

SetFrame ==
    UNCHANGED <<stores, store_current, item_count, next_epoch, th, prog, refmap,
                mmm, dict>>

\* hatrack_set_disjunction up to its loop: the two views are sorted by hash
\* value, i = 0, j = 0
hatrack_set_disjunction_sort ==
    /\ set_op.pc = "disjunction"
    /\ set_op' = [set_op EXCEPT !.pc = "disjunction_loop",
                                !.view1 = hatrack_set_hv_sort(@),
                                !.view2 = hatrack_set_hv_sort(@),
                                !.i = 0, !.j = 0]
    /\ SetFrame

\* one pass of while ((i < num1) && (j < num2)), or the end of the loop and
\* the return of ret
hatrack_set_disjunction_loop ==
    LET i  == set_op.i
        j  == set_op.j
        e1 == set_op.view1[i + 1]
        e2 == set_op.view2[j + 1]
    IN  /\ set_op.pc = "disjunction_loop"
        /\ set_op' =
             IF i < Len(set_op.view1) /\ j < Len(set_op.view2)
             THEN IF hatrack_hashes_eq(e1.hv, e2.hv)
                  THEN [set_op EXCEPT !.i = i + 1, !.j = j + 1]
                  ELSE IF hatrack_hash_gt(e1.hv, e2.hv)
                  THEN [set_op EXCEPT !.ret = woolhat_add(@, e2.hv, e2.item),
                                      !.j = j + 1]
                  ELSE [set_op EXCEPT !.ret = woolhat_add(@, e1.hv, e1.item),
                                      !.i = i + 1]
             ELSE [set_op EXCEPT !.pc = "returned"]
        /\ SetFrame

\* hatrack_set_is_superset up to its loops: num2 > num1 returns false, else the
\* two views are sorted by hash value and j = 0, i = 0
hatrack_set_is_superset_sort ==
    /\ set_op.pc = "is_superset"
    /\ set_op' =
         IF Len(set_op.view2) > Len(set_op.view1)
         THEN [set_op EXCEPT !.pc = "is_superset_returned", !.answer = FALSE]
         ELSE [set_op EXCEPT !.pc = "is_superset_loop",
                             !.view1 = hatrack_set_hv_sort(@),
                             !.view2 = hatrack_set_hv_sort(@),
                             !.i = 0, !.j = 0]
    /\ SetFrame

\* One pass of the while (true) inside for (i = 0; i < num2; i++), or the end
\* of the for loop and the return.  view1[j] is read before j is compared with
\* num1: at j = num1 the read is past the end of the array and yields any
\* value (oob records that it happened).
hatrack_set_is_superset_loop ==
    LET i    == set_op.i
        j    == set_op.j
        num1 == Len(set_op.view1)
        num2 == Len(set_op.view2)
    IN  /\ set_op.pc = "is_superset_loop"
        /\ IF i < num2
           THEN \E hv1 \in IF j < num1 THEN {set_op.view1[j + 1].hv}
                                      ELSE 0..(SetKeys + 1) :
                   LET s == [set_op EXCEPT !.oob = @ \/ j >= num1]
                   IN  set_op' =
                         IF hatrack_hashes_eq(hv1, set_op.view2[i + 1].hv)
                         THEN [s EXCEPT !.i = i + 1]
                         ELSE IF hatrack_hash_gt(hv1, set_op.view2[i + 1].hv)
                         THEN [s EXCEPT !.pc = "is_superset_returned", !.answer = FALSE]
                         ELSE IF j = num1
                         THEN [s EXCEPT !.pc = "is_superset_returned", !.answer = FALSE]
                         ELSE [s EXCEPT !.j = j + 1]
           ELSE set_op' = [set_op EXCEPT !.pc = "is_superset_returned",
                                         !.answer = ~(set_op.proper /\ num1 = num2)]
        /\ SetFrame

\* the conversion of an integer to int: the low IntBits bits, as a signed value
ToInt(x) ==
    LET m == x % Pow2(IntBits)
    IN  IF m >= Pow2(IntBits - 1) THEN m - Pow2(IntBits) ELSE m

\* return item1->sort_epoch - item2->sort_epoch, as an int
hatrack_set_epoch_sort_cmp(item1, item2) ==
    ToInt(item1.sort_epoch - item2.sort_epoch)

\* the sequences of n distinct elements of S
Orders(S, n) == {q \in [1..n -> S] : \A a, b \in 1..n : a # b => q[a] # q[b]}

\* qsort(view, num, sizeof(hatrack_set_view_t), hatrack_set_epoch_sort_cmp):
\* the arrays qsort can leave.  Where the comparison orders the entries (any two
\* compare with opposite signs, and the order is transitive) these are the
\* arrays in that order; where it does not, qsort may leave any arrangement.
hatrack_set_epoch_sort(view) ==
    LET n         == Len(view)
        le(a, b)  == hatrack_set_epoch_sort_cmp(a, b) <= 0
        E         == {view[k] : k \in 1..n}
        ordered   == /\ \A a, b \in E :
                          a # b => (hatrack_set_epoch_sort_cmp(a, b) < 0
                                      <=> hatrack_set_epoch_sort_cmp(b, a) > 0)
                     /\ \A a, b, c \in E : le(a, b) /\ le(b, c) => le(a, c)
        arranged  == {[k \in 1..n |-> view[q[k]]] : q \in Orders(1..n, n)}
    IN  IF ordered
        THEN {v \in arranged : \A k \in 1..(n - 1) : le(v[k], v[k + 1])}
        ELSE arranged

\* hatrack_set_union up to its loops: the two views are sorted by sort epoch,
\* i = 0, j = 0
hatrack_set_union_sort ==
    /\ set_op.pc = "union"
    /\ \E v1 \in hatrack_set_epoch_sort(set_op.view1),
          v2 \in hatrack_set_epoch_sort(set_op.view2) :
          set_op' = [set_op EXCEPT !.pc = "union_loop", !.view1 = v1,
                                   !.view2 = v2, !.i = 0, !.j = 0]
    /\ SetFrame

\* one pass of the merge loop, then of the loop over the rest of view1, then of
\* the loop over the rest of view2, or the return of ret
hatrack_set_union_loop ==
    LET i  == set_op.i
        j  == set_op.j
        e1 == set_op.view1[i + 1]
        e2 == set_op.view2[j + 1]
        add1 == [set_op EXCEPT !.ret = woolhat_add(@, e1.hv, e1.item), !.i = i + 1]
        add2 == [set_op EXCEPT !.ret = woolhat_add(@, e2.hv, e2.item), !.j = j + 1]
    IN  /\ set_op.pc = "union_loop"
        /\ set_op' =
             IF i < Len(set_op.view1) /\ j < Len(set_op.view2)
             THEN IF e1.sort_epoch < e2.sort_epoch THEN add1 ELSE add2
             ELSE IF i < Len(set_op.view1) THEN add1
             ELSE IF j < Len(set_op.view2) THEN add2
             ELSE [set_op EXCEPT !.pc = "union_returned"]
        /\ SetFrame

\* --------------------------------------------------------------- dict.c
\* The table under the dictionary, by its interface: one item per hash value,
\* each call taking effect at once.  self is the table the call leaves, ret
\* what it returns.
witchhat_put(self, hv, item) ==
    [self |-> [self EXCEPT ![hv] = item], ret |-> self[hv]]

witchhat_replace(self, hv, item) ==
    IF self[hv] # NULL
    THEN [self |-> [self EXCEPT ![hv] = item], ret |-> self[hv]]
    ELSE [self |-> self, ret |-> NULL]

witchhat_add(self, hv, item) ==
    IF self[hv] = NULL
    THEN [self |-> [self EXCEPT ![hv] = item], ret |-> TRUE]
    ELSE [self |-> self, ret |-> FALSE]

witchhat_remove(self, hv) ==
    [self |-> [self EXCEPT ![hv] = NULL], ret |-> self[hv]]

\* a step of thread t inside a dictionary call: its locals, the table, the
\* item records and the memory manager it leaves
DictStep(t, l2, w2, items2, m2) ==
    /\ dict' = [witchhat_instance |-> w2, items |-> items2,
                th |-> [dict.th EXCEPT ![t] = l2]]
    /\ mmm' = m2
    /\ UNCHANGED <<stores, store_current, item_count, next_epoch, th, prog,
                   refmap, set_op>>

\* mmm_start_basic_op(); new_item = mmm_alloc_committed(...) for a call op on hv
DictAlloc(t, op, hv) ==
    /\ dict.th[t].pc = "idle"
    /\ Len(dict.items) < MaxDictItems
    /\ DictStep(t, [pc |-> op, op |-> op, hv |-> hv,
                    new_item |-> Len(dict.items) + 1, old_item |-> NULL,
                    added |-> FALSE, ret |-> FALSE],
                dict.witchhat_instance,
                Append(dict.items, [retired |-> 0, unused |-> 0]),
                mmm_alloc_committed(mmm_start_basic_op(mmm, t), FALSE))

\* mmm_retire(p) and mmm_retire_unused(p) on the item records
DictRetire(items, p) == [items EXCEPT ![p].retired = @ + 1]
DictRetireUnused(items, p) == [items EXCEPT ![p].unused = @ + 1]

\* hatrack_dict_put: allocate; old_item = witchhat_put(...); if (old_item)
\* mmm_retire(old_item); mmm_end_op()
hatrack_dict_put(t) ==
    LET l == dict.th[t]
    IN  \/ \E hv \in 1..DictKeys : DictAlloc(t, "put", hv)
        \/ /\ l.pc = "put"
           /\ LET r == witchhat_put(dict.witchhat_instance, l.hv, l.new_item)
              IN  DictStep(t, [l EXCEPT !.pc = "put_end", !.old_item = r.ret],
                           r.self, dict.items, mmm)
        \/ /\ l.pc = "put_end"
           /\ DictStep(t, [l EXCEPT !.pc = "idle"], dict.witchhat_instance,
                       IF l.old_item # NULL
                       THEN DictRetire(dict.items, l.old_item)
                       ELSE dict.items,
                       mmm_end_reservation(mmm, t))

\* a replace that goes on to mmm_retire_unused(new_item) after a replacement
hatrack_dict_replace_fallthrough(t) ==
    LET l == dict.th[t]
    IN  \/ \E hv \in 1..DictKeys : DictAlloc(t, "replace", hv)
        \/ /\ l.pc = "replace"
           /\ LET r == witchhat_replace(dict.witchhat_instance, l.hv, l.new_item)
              IN  DictStep(t, [l EXCEPT !.pc = "replace_end", !.old_item = r.ret],
                           r.self, dict.items, mmm)
        \/ /\ l.pc = "replace_end"
           /\ DictStep(t, [l EXCEPT !.pc = "idle", !.ret = l.old_item # NULL],
                       dict.witchhat_instance,
                       IF l.old_item # NULL
                       THEN DictRetireUnused(DictRetire(dict.items, l.old_item),
                                             l.new_item)
                       ELSE DictRetireUnused(dict.items, l.new_item),
                       mmm_end_reservation(mmm, t))

\* hatrack_dict_replace: allocate; old_item = witchhat_replace(...); if
\* (old_item) mmm_retire(old_item), return true; else
\* mmm_retire_unused(new_item), return false
hatrack_dict_replace(t) ==
    LET l == dict.th[t]
    IN  \/ \E hv \in 1..DictKeys : DictAlloc(t, "replace", hv)
        \/ /\ l.pc = "replace"
           /\ LET r == witchhat_replace(dict.witchhat_instance, l.hv, l.new_item)
              IN  DictStep(t, [l EXCEPT !.pc = "replace_end", !.old_item = r.ret],
                           r.self, dict.items, mmm)
        \/ /\ l.pc = "replace_end"
           /\ DictStep(t, [l EXCEPT !.pc = "idle", !.ret = l.old_item # NULL],
                       dict.witchhat_instance,
                       IF l.old_item # NULL
                       THEN DictRetire(dict.items, l.old_item)
                       ELSE DictRetireUnused(dict.items, l.new_item),
                       mmm_end_reservation(mmm, t))

\* hatrack_dict_add: allocate; if (witchhat_add(...)) return true; else
\* mmm_retire_unused(new_item), return false
hatrack_dict_add(t) ==
    LET l == dict.th[t]
    IN  \/ \E hv \in 1..DictKeys : DictAlloc(t, "add", hv)
        \/ /\ l.pc = "add"
           /\ LET r == witchhat_add(dict.witchhat_instance, l.hv, l.new_item)
              IN  DictStep(t, [l EXCEPT !.pc = "add_end", !.added = r.ret],
                           r.self, dict.items, mmm)
        \/ /\ l.pc = "add_end"
           /\ DictStep(t, [l EXCEPT !.pc = "idle", !.ret = l.added],
                       dict.witchhat_instance,
                       IF l.added
                       THEN dict.items
                       ELSE DictRetireUnused(dict.items, l.new_item),
                       mmm_end_reservation(mmm, t))

\* hatrack_dict_remove: mmm_start_basic_op(); old_item = witchhat_remove(...);
\* if (old_item) mmm_retire(old_item), return true; else return false
hatrack_dict_remove(t) ==
    LET l == dict.th[t]
    IN  \/ /\ l.pc = "idle"
           /\ \E hv \in 1..DictKeys :
                 DictStep(t, [pc |-> "remove", op |-> "remove", hv |-> hv,
                              new_item |-> NULL, old_item |-> NULL,
                              added |-> FALSE, ret |-> FALSE],
                          dict.witchhat_instance, dict.items,
                          mmm_start_basic_op(mmm, t))
        \/ /\ l.pc = "remove"
           /\ LET r == witchhat_remove(dict.witchhat_instance, l.hv)
              IN  DictStep(t, [l EXCEPT !.pc = "remove_end", !.old_item = r.ret],
                           r.self, dict.items, mmm)
        \/ /\ l.pc = "remove_end"
           /\ DictStep(t, [l EXCEPT !.pc = "idle", !.ret = l.old_item # NULL],
                       dict.witchhat_instance,
                       IF l.old_item # NULL
                       THEN DictRetire(dict.items, l.old_item)
                       ELSE dict.items,
                       mmm_end_reservation(mmm, t))

\* ------------------------------------------------------- specifications
Step(t) ==
    \/ Call(t)
    \/ hihat_a_get(t) \/ hihat_a_put(t) \/ hihat_a_replace(t)
    \/ hihat_a_add(t) \/ hihat_a_remove(t) \/ hihat_a_len(t)
    \/ mmm_end_op(t)
    \/ hihat_a_store_get_hv(t) \/ hihat_a_store_get_rec(t)
    \/ hihat_a_store_put_hv(t) \/ hihat_a_store_put_hv_cas(t)
    \/ hihat_a_store_put_used(t) \/ hihat_a_store_put_rec(t)
    \/ hihat_a_store_put_epoch_rd(t) \/ hihat_a_store_put_epoch_wr(t)
    \/ hihat_a_store_put_cas(t) \/ hihat_a_store_put_count(t)
    \/ hihat_a_store_replace_hv(t) \/ hihat_a_store_replace_rec(t)
    \/ hihat_a_store_replace_cas(t)
    \/ hihat_a_store_add_hv(t) \/ hihat_a_store_add_hv_cas(t)
    \/ hihat_a_store_add_used(t) \/ hihat_a_store_add_rec(t)
    \/ hihat_a_store_add_epoch_rd(t) \/ hihat_a_store_add_epoch_wr(t)
    \/ hihat_a_store_add_cas(t) \/ hihat_a_store_add_count(t)
    \/ hihat_a_store_remove_hv(t) \/ hihat_a_store_remove_rec(t)
    \/ hihat_a_store_remove_cas(t) \/ hihat_a_store_remove_count(t)
    \/ hihat_a_store_migrate_cur(t) \/ hihat_a_store_migrate_next(t)
    \/ hihat_a_store_migrate_sleep1_next(t) \/ hihat_a_store_migrate_sleep1_cur(t)
    \/ hihat_a_store_migrate_sleep2_next(t) \/ hihat_a_store_migrate_sleep2_cur(t)
    \/ hihat_a_store_migrate_freeze_rd(t) \/ hihat_a_store_migrate_freeze_cas(t)
    \/ hihat_a_store_migrate_next2(t) \/ hihat_a_store_migrate_install(t)
    \/ hihat_a_store_migrate_copy_rd(t) \/ hihat_a_store_migrate_copy_hv(t)
    \/ hihat_a_store_migrate_new_hv(t) \/ hihat_a_store_migrate_new_hv_cas(t)
    \/ hihat_a_store_migrate_new_rec(t) \/ hihat_a_store_migrate_moved(t)
    \/ hihat_a_store_migrate_used(t) \/ hihat_a_store_migrate_publish(t)
    \/ hihat_a_store_migrate_ret(t)

\* the calls a workload can pick from, on the hash values K
Calls(K) ==
    {[op |-> o, hv |-> h, item |-> NULL] : o \in {"get", "remove"}, h \in K}
    \cup {[op |-> o, hv |-> h, item |-> it] :
             o \in {"put", "replace", "add"}, h \in K, it \in Items}
    \cup {[op |-> "len", hv |-> 0, item |-> NULL]}

\* the table after put(h, it) has run alone on the table hihat_a_init leaves
AfterPut(h, it) ==
    LET b == hatrack_bucket_index(h, HATRACK_MIN_SIZE - 1)
    IN  /\ stores = <<[hihat_a_store_new(HATRACK_MIN_SIZE) EXCEPT
                          !.used_count = 1,
                          !.buckets[b] = [hv |-> h,
                                          record |-> [item |-> it,
                                                      info |-> EpochInfo(1)]]]>>
        /\ store_current = 1
        /\ item_count = 1
        /\ next_epoch = 2
        /\ th = [t \in Threads |-> IdleLocals]
        /\ refmap = [k \in AllKeys |->
                        IF k = h THEN [known |-> TRUE, item |-> it, by |-> "put"]
                        ELSE [known |-> TRUE, item |-> NULL, by |-> "init"]]
        /\ Unfollowed

\* one call
CallOf(o, h, it) == [op |-> o, hv |-> h, item |-> it]

\* Concurrent workloads.  Thread 1 runs the first program, every other thread
\* the second.
\* Pair: on a table that holds key 1 (a full store of the minimum size), every
\* thread makes one call, any call on any key.
WorkloadPair ==
    /\ AfterPut(1, 1)
    /\ prog = [t \in Threads |-> <<Calls(1..NumKeys)>>]

\* Fresh: the same on the table hihat_a_init leaves, all calls on key 1.
WorkloadFresh ==
    /\ InitTable
    /\ prog = [t \in Threads |-> <<Calls({1})>>]

\* Late: on a table that holds key 1, thread 1 inserts key 2 (which migrates
\* the store), removes key 1, makes any call on key 1 and reads key 1, while
\* every other thread makes one call on key 2.
WorkloadLate ==
    /\ AfterPut(1, 1)
    /\ prog = [t \in Threads |->
                 IF t = 1
                 THEN <<{CallOf("put", 2, 1)}, {CallOf("remove", 1, NULL)},
                        Calls({1}), {CallOf("get", 1, NULL)}>>
                 ELSE <<Calls({2})>>]

Init == WorkloadPair \/ WorkloadFresh \/ WorkloadLate

Next == \E t \in Threads : Step(t)

Spec == Init /\ [][Next]_vars

\* The single-threaded workload: SeqOps calls of thread 1, any call on SeqKeys
\* hash values, on the table hihat_a_init leaves.
InitSeq ==
    /\ InitTable
    /\ prog = [t \in Threads |->
                 IF t = 1 THEN [n \in 1..SeqOps |-> Calls(1..SeqKeys)] ELSE <<>>]

\* the steps a thread can take when it runs alone
StepSeq(t) ==
    \/ Call(t)
    \/ hihat_a_get(t) \/ hihat_a_put(t) \/ hihat_a_replace(t)
    \/ hihat_a_add(t) \/ hihat_a_remove(t) \/ hihat_a_len(t)
    \/ mmm_end_op(t)
    \/ hihat_a_store_get_hv(t) \/ hihat_a_store_get_rec(t)
    \/ hihat_a_store_put_hv(t) \/ hihat_a_store_put_hv_cas(t)
    \/ hihat_a_store_put_used(t) \/ hihat_a_store_put_rec(t)
    \/ hihat_a_store_put_epoch_rd(t) \/ hihat_a_store_put_epoch_wr(t)
    \/ hihat_a_store_put_cas(t) \/ hihat_a_store_put_count(t)
    \/ hihat_a_store_replace_hv(t) \/ hihat_a_store_replace_rec(t)
    \/ hihat_a_store_replace_cas(t)
    \/ hihat_a_store_add_hv(t) \/ hihat_a_store_add_hv_cas(t)
    \/ hihat_a_store_add_used(t) \/ hihat_a_store_add_rec(t)
    \/ hihat_a_store_add_epoch_rd(t) \/ hihat_a_store_add_epoch_wr(t)
    \/ hihat_a_store_add_cas(t) \/ hihat_a_store_add_count(t)
    \/ hihat_a_store_remove_hv(t) \/ hihat_a_store_remove_rec(t)
    \/ hihat_a_store_remove_cas(t) \/ hihat_a_store_remove_count(t)
    \/ hihat_a_store_migrate_cur(t) \/ hihat_a_store_migrate_next(t)
    \/ hihat_a_store_migrate_freeze_rd(t) \/ hihat_a_store_migrate_freeze_cas(t)
    \/ hihat_a_store_migrate_next2(t) \/ hihat_a_store_migrate_install(t)
    \/ hihat_a_store_migrate_copy_rd(t) \/ hihat_a_store_migrate_copy_hv(t)
    \/ hihat_a_store_migrate_new_hv(t) \/ hihat_a_store_migrate_new_hv_cas(t)
    \/ hihat_a_store_migrate_new_rec(t) \/ hihat_a_store_migrate_moved(t)
    \/ hihat_a_store_migrate_used(t) \/ hihat_a_store_migrate_publish(t)
    \/ hihat_a_store_migrate_ret(t)

NextSeq == \E t \in Threads : StepSeq(t)

SpecSeq == InitSeq /\ [][NextSeq]_vars

\* The growth workload: thread 1 inserts GrowKeys distinct hash values, one
\* after the other, into the table hihat_a_init leaves.
InitGrow ==
    /\ InitTable
    /\ prog = [t \in Threads |->
                 IF t = 1 THEN [n \in 1..GrowKeys |-> {CallOf("put", n, 1)}]
                 ELSE <<>>]

StepGrow(t) ==
    \/ Call(t)
    \/ hihat_a_put(t)
    \/ mmm_end_op(t)
    \/ hihat_a_store_put_hv(t) \/ hihat_a_store_put_hv_cas(t)
    \/ hihat_a_store_put_used(t) \/ hihat_a_store_put_rec(t)
    \/ hihat_a_store_put_epoch_rd(t) \/ hihat_a_store_put_epoch_wr(t)
    \/ hihat_a_store_put_cas(t) \/ hihat_a_store_put_count(t)
    \/ hihat_a_store_migrate_cur(t) \/ hihat_a_store_migrate_next(t)
    \/ hihat_a_store_migrate_freeze_rd(t) \/ hihat_a_store_migrate_freeze_cas(t)
    \/ hihat_a_store_migrate_next2(t) \/ hihat_a_store_migrate_install(t)
    \/ hihat_a_store_migrate_copy_rd(t) \/ hihat_a_store_migrate_copy_hv(t)
    \/ hihat_a_store_migrate_new_hv(t) \/ hihat_a_store_migrate_new_hv_cas(t)
    \/ hihat_a_store_migrate_new_rec(t) \/ hihat_a_store_migrate_moved(t)
    \/ hihat_a_store_migrate_used(t) \/ hihat_a_store_migrate_publish(t)
    \/ hihat_a_store_migrate_ret(t)

NextGrow == \E t \in Threads : StepGrow(t)

\* the thread is scheduled as long as it can take a step
SpecGrow == InitGrow /\ [][NextGrow]_vars /\ WF_vars(NextGrow)

\* The table after put(1, 1), put(2, 1), remove(1), remove(2) have run one after
\* the other on the table hihat_a_init leaves: one store of two buckets, both
\* reserved, both records removed.
AfterRemoves ==
    /\ stores = <<[hihat_a_store_new(2) EXCEPT
                      !.used_count = 2,
                      !.buckets = [b \in 0..1 |->
                                     [hv |-> IF b = hatrack_bucket_index(1, 1)
                                             THEN 1 ELSE 2,
                                      record |-> ZeroRec]]]>>
    /\ store_current = 1
    /\ item_count = 0
    /\ next_epoch = 3
    /\ th = [t \in Threads |-> IdleLocals]
    /\ refmap = [k \in AllKeys |->
                    IF k \in {1, 2}
                    THEN [known |-> TRUE, item |-> NULL, by |-> "remove"]
                    ELSE [known |-> TRUE, item |-> NULL, by |-> "init"]]
    /\ Unfollowed

\* The insertion workload: on that table thread 1 inserts key 1 and every other
\* thread key 2, each with one put or add.
InitInsert ==
    /\ AfterRemoves
    /\ prog = [t \in Threads |->
                 <<{CallOf(o, IF t = 1 THEN 1 ELSE 2, it) :
                        o \in {"put", "add"}, it \in Items}>>]

StepInsert(t) ==
    \/ Call(t)
    \/ hihat_a_put(t) \/ hihat_a_add(t)
    \/ mmm_end_op(t)
    \/ hihat_a_store_put_hv(t) \/ hihat_a_store_put_rec(t)
    \/ hihat_a_store_put_epoch_rd(t) \/ hihat_a_store_put_epoch_wr(t)
    \/ hihat_a_store_put_cas(t) \/ hihat_a_store_put_count(t)
    \/ hihat_a_store_add_hv(t) \/ hihat_a_store_add_rec(t)
    \/ hihat_a_store_add_epoch_rd(t) \/ hihat_a_store_add_epoch_wr(t)
    \/ hihat_a_store_add_cas(t) \/ hihat_a_store_add_count(t)

NextInsert == \E t \in Threads : StepInsert(t)

SpecInsert == InitInsert /\ [][NextInsert]_vars

\* The decay workload: thread 1 inserts three keys, removes two of them and
\* inserts a fourth, on the table hihat_a_init leaves.
InitShrink ==
    /\ InitTable
    /\ prog = [t \in Threads |->
                 IF t = 1
                 THEN <<{CallOf("put", 1, 1)}, {CallOf("put", 2, 1)},
                        {CallOf("put", 3, 1)}, {CallOf("remove", 1, NULL)},
                        {CallOf("remove", 2, NULL)}, {CallOf("put", 4, 1)}>>
                 ELSE <<>>]

StepShrink(t) ==
    \/ StepGrow(t)
    \/ hihat_a_remove(t)
    \/ hihat_a_store_remove_hv(t) \/ hihat_a_store_remove_rec(t)
    \/ hihat_a_store_remove_cas(t) \/ hihat_a_store_remove_count(t)

NextShrink == \E t \in Threads : StepShrink(t)

SpecShrink == InitShrink /\ [][NextShrink]_vars

\* The table after put(1, 1), put(2, 1), remove(2) have run one after the other
\* on the table hihat_a_init leaves: one full store of two buckets, key 1 live,
\* key 2 removed.
AfterDecay ==
    /\ stores = <<[hihat_a_store_new(2) EXCEPT
                      !.used_count = 2,
                      !.buckets = [b \in 0..1 |->
                                     IF b = hatrack_bucket_index(1, 1)
                                     THEN [hv |-> 1,
                                           record |-> [item |-> 1,
                                                       info |-> EpochInfo(1)]]
                                     ELSE [hv |-> 2, record |-> ZeroRec]]]>>
    /\ store_current = 1
    /\ item_count = 1
    /\ next_epoch = 3
    /\ th = [t \in Threads |-> IdleLocals]
    /\ refmap = [k \in AllKeys |->
                    CASE k = 1 -> [known |-> TRUE, item |-> 1, by |-> "put"]
                      [] k = 2 -> [known |-> TRUE, item |-> NULL, by |-> "remove"]
                      [] OTHER -> [known |-> TRUE, item |-> NULL, by |-> "init"]]
    /\ Unfollowed

\* The migration workload: on a full store every thread calls put on the same
\* new key, which sends each of them into hihat_a_store_migrate; a thread stops
\* when its hihat_a_store_migrate returns, so that no writer acts.
InitMigrate ==
    /\ AfterPut(1, 1) \/ AfterDecay
    /\ prog = [t \in Threads |-> <<{CallOf("put", 3, 1)}>>]

StepMigrate(t) ==
    \/ Call(t)
    \/ hihat_a_put(t)
    \/ th[t].migrations = 0 /\ hihat_a_store_put_hv(t)
    \/ hihat_a_store_migrate_cur(t) \/ hihat_a_store_migrate_next(t)
    \/ hihat_a_store_migrate_sleep1_next(t) \/ hihat_a_store_migrate_sleep1_cur(t)
    \/ hihat_a_store_migrate_sleep2_next(t) \/ hihat_a_store_migrate_sleep2_cur(t)
    \/ hihat_a_store_migrate_freeze_rd(t) \/ hihat_a_store_migrate_freeze_cas(t)
    \/ hihat_a_store_migrate_next2(t) \/ hihat_a_store_migrate_install(t)
    \/ hihat_a_store_migrate_copy_rd(t) \/ hihat_a_store_migrate_copy_hv(t)
    \/ hihat_a_store_migrate_new_hv(t) \/ hihat_a_store_migrate_new_hv_cas(t)
    \/ hihat_a_store_migrate_new_rec(t) \/ hihat_a_store_migrate_moved(t)
    \/ hihat_a_store_migrate_used(t) \/ hihat_a_store_migrate_publish(t)

NextMigrate == \E t \in Threads : StepMigrate(t)

SpecMigrate == InitMigrate /\ [][NextMigrate]_vars

\* The store one migrator running alone leaves as the successor of store old:
\* the live records in bucket order, each in the first bucket of its probe
\* sequence that is unreserved, and used_count the number of live records.
PlaceRecord(new, hv, record) ==
    LET size   == new.last_slot + 1
        at(j)  == (hatrack_bucket_index(hv, new.last_slot) + j) % size
        fits(j) == \/ hatrack_bucket_unreserved(new.buckets[at(j)].hv)
                   \/ hatrack_hashes_eq(new.buckets[at(j)].hv, hv)
        j      == CHOOSE k \in 0..new.last_slot :
                     fits(k) /\ \A m \in 0..(k - 1) : ~fits(m)
    IN  [new EXCEPT !.buckets[at(j)] = [hv |-> hv, record |-> record]]

RECURSIVE CopyFrom(_, _, _)
CopyFrom(new, old, i) ==
    IF i > old.last_slot
    THEN new
    ELSE IF HIHAT_EPOCH_MASK(old.buckets[i].record.info) = 0
    THEN CopyFrom(new, old, i + 1)
    ELSE CopyFrom(PlaceRecord(new, old.buckets[i].hv,
                              CopyCandidate(old.buckets[i].record)),
                  old, i + 1)

MigrateAlone(old) ==
    LET live == Cardinality({b \in DOMAIN old.buckets :
                    HIHAT_EPOCH_MASK(old.buckets[b].record.info) # 0})
        new  == hihat_a_store_new(hatrack_new_size(old.last_slot, live))
    IN  [CopyFrom(new, old, 0) EXCEPT !.used_count = live]

\* The lifetime workload: thread 1 inserts three hash values, the other threads
\* insert one of them, which takes the table through two migrations with
\* competing migrators; when all calls have returned the table is deleted.
InitDelete ==
    /\ InitTable
    /\ prog = [t \in Threads |->
                 IF t = 1 THEN [n \in 1..3 |-> {CallOf("put", n, 1)}]
                 ELSE <<{CallOf("put", 2, 2)}>>]

StepDelete(t) ==
    \/ StepGrow(t)
    \/ hihat_a_store_migrate_sleep1_next(t) \/ hihat_a_store_migrate_sleep1_cur(t)
    \/ hihat_a_store_migrate_sleep2_next(t) \/ hihat_a_store_migrate_sleep2_cur(t)
    \/ hihat_a_delete(t)
    \/ hihat_a_delete_free(t)

NextDelete == \E t \in Threads : StepDelete(t)

SpecDelete == InitDelete /\ [][NextDelete]_vars

\* The reclamation workload, with the memory manager followed: thread 1 inserts
\* three hash values, which migrates the table twice, and reads the last,
\* while every other thread writes the first, and any thread may sweep the
\* retired stores at any time.
InitSMR ==
    /\ hihat_a_init
    /\ mmm = mmm_init(TRUE)
    /\ set_op = NoSetOp
    /\ dict = hatrack_dict_init
    /\ prog = [t \in Threads |->
                 IF t = 1
                 THEN <<{CallOf("put", 1, 1)}, {CallOf("put", 2, 1)},
                        {CallOf("put", 3, 1)}, {CallOf("get", 3, NULL)}>>
                 ELSE <<{CallOf("put", 1, 2)}>>]

StepSMR(t) ==
    \/ StepGrow(t)
    \/ hihat_a_get(t)
    \/ hihat_a_store_get_hv(t) \/ hihat_a_store_get_rec(t)
    \/ hihat_a_store_migrate_sleep1_next(t) \/ hihat_a_store_migrate_sleep1_cur(t)
    \/ hihat_a_store_migrate_sleep2_next(t) \/ hihat_a_store_migrate_sleep2_cur(t)
    \/ mmm_empty(t)

NextSMR == \E t \in Threads : StepSMR(t)

SpecSMR == InitSMR /\ [][NextSMR]_vars

\* The views woolhat_view_epoch can return for a set: any entries with distinct
\* hash values among 1..SetKeys, in any order; the item of an entry tells the
\* set it comes from.
SetViews(n) ==
    {[k \in 1..Len(hvs) |-> [hv |-> hvs[k], item |-> (n - 1) * SetKeys + hvs[k]]] :
        hvs \in {q \in UNION {[1..m -> 1..SetKeys] : m \in 0..SetKeys} :
                    \A a, b \in DOMAIN q : a # b => q[a] # q[b]}}

\* hatrack_set_disjunction or hatrack_set_is_superset (proper or not) is
\* called on two sets of any contents, or hatrack_set_union on two sets of at
\* most UnionLen entries, every entry with a sort epoch of its own
InitSet ==
    /\ hihat_a_init
    /\ mmm = mmm_init(FALSE)
    /\ dict = hatrack_dict_init
    /\ prog = [t \in Threads |-> <<>>]
    /\ \/ \E view1 \in SetViews(1), view2 \in SetViews(2) :
             set_op = [NoSetOp EXCEPT !.pc = "disjunction",
                                      !.view1 = view1, !.view2 = view2]
       \/ \E view1 \in SetViews(1), view2 \in SetViews(2), proper \in BOOLEAN :
             set_op = [NoSetOp EXCEPT !.pc = "is_superset", !.proper = proper,
                                      !.view1 = view1, !.view2 = view2]
       \/ \E n1 \in 0..UnionLen, n2 \in 0..UnionLen :
             \E hv1 \in Orders(1..SetKeys, n1), hv2 \in Orders(1..SetKeys, n2),
                es \in Orders(1..MaxSetEpoch, n1 + n2) :
                set_op = [NoSetOp EXCEPT
                            !.pc = "union",
                            !.view1 = [k \in 1..n1 |->
                                         [hv |-> hv1[k], item |-> hv1[k],
                                          sort_epoch |-> es[k]]],
                            !.view2 = [k \in 1..n2 |->
                                         [hv |-> hv2[k], item |-> SetKeys + hv2[k],
                                          sort_epoch |-> es[n1 + k]]]]

NextSet ==
    \/ hatrack_set_disjunction_sort \/ hatrack_set_disjunction_loop
    \/ hatrack_set_is_superset_sort \/ hatrack_set_is_superset_loop
    \/ hatrack_set_union_sort \/ hatrack_set_union_loop

SpecSet == InitSet /\ [][NextSet]_vars

\* The retry workload: on the table hihat_a_init leaves thread 1 inserts key 1
\* and replaces its item while every other thread removes the key and inserts
\* it again, so that the record changes under a writer between its read and
\* its compare-and-swap.
InitRetry ==
    /\ InitTable
    /\ prog = [t \in Threads |->
                 IF t = 1
                 THEN <<{CallOf("put", 1, 1)}, {CallOf("replace", 1, 2)}>>
                 ELSE <<{CallOf("remove", 1, NULL)}, {CallOf("put", 1, 1)}>>]

StepRetry(t) ==
    \/ Call(t)
    \/ hihat_a_put(t) \/ hihat_a_replace(t) \/ hihat_a_remove(t)
    \/ mmm_end_op(t)
    \/ hihat_a_store_put_hv(t) \/ hihat_a_store_put_hv_cas(t)
    \/ hihat_a_store_put_used(t) \/ hihat_a_store_put_rec(t)
    \/ hihat_a_store_put_epoch_rd(t) \/ hihat_a_store_put_epoch_wr(t)
    \/ hihat_a_store_put_cas(t) \/ hihat_a_store_put_count(t)
    \/ hihat_a_store_replace_hv(t) \/ hihat_a_store_replace_rec(t)
    \/ hihat_a_store_replace_cas(t)
    \/ hihat_a_store_remove_hv(t) \/ hihat_a_store_remove_rec(t)
    \/ hihat_a_store_remove_cas(t) \/ hihat_a_store_remove_count(t)

NextRetry == \E t \in Threads : StepRetry(t)

SpecRetry == InitRetry /\ [][NextRetry]_vars

\* The number of stores a step drops from the front of stores: a step that
\* installs a store_next drops none, and no other step adds a store.
Dropped ==
    IF Len(stores') > Len(stores) THEN 0 ELSE Len(stores) - Len(stores')

\* The readers' workload: on the table hihat_a_init leaves thread 1 inserts
\* keys 1 and 2 and then removes key 1 or updates key 2, while every other
\* thread makes two calls among view (sorted or not), get and len.
InitView ==
    /\ InitTable
    /\ prog = [t \in Threads |->
                 IF t = 1
                 THEN <<{CallOf("put", 1, 1)}, {CallOf("put", 2, 1)},
                        {CallOf("remove", 1, NULL), CallOf("put", 2, 2)}>>
                 ELSE LET readers == {CallOf("view", 0, sort) : sort \in {NULL, 1}}
                                       \cup {CallOf("get", h, NULL) : h \in 1..2}
                                       \cup {CallOf("len", 0, NULL)}
                      IN  <<readers, readers>>]

NextView ==
    \E t \in Threads :
        \/ StepGrow(t)
        \/ hihat_a_remove(t)
        \/ hihat_a_store_remove_hv(t) \/ hihat_a_store_remove_rec(t)
        \/ hihat_a_store_remove_cas(t) \/ hihat_a_store_remove_count(t)
        \/ hihat_a_get(t) \/ hihat_a_len(t) \/ hihat_a_view(t)
        \/ hihat_a_store_get_hv(t) \/ hihat_a_store_get_rec(t)
        \/ hihat_a_view_rec(t) \/ hihat_a_view_ret(t)

SpecView == InitView /\ [][NextView]_vars

\* The dictionary workload: on an empty dictionary every thread calls put,
\* replace, add and remove on any hash value, in any order, until MaxDictItems
\* item records have been allocated; the memory manager is followed.
InitDict ==
    /\ hihat_a_init
    /\ mmm = mmm_init(TRUE)
    /\ set_op = NoSetOp
    /\ dict = hatrack_dict_init
    /\ prog = [t \in Threads |-> <<>>]

NextDict ==
    \E t \in Threads :
        \/ hatrack_dict_put(t) \/ hatrack_dict_replace(t)
        \/ hatrack_dict_add(t) \/ hatrack_dict_remove(t)

SpecDict == InitDict /\ [][NextDict]_vars

\* ------------------------------------------------------------ the claims
\* C1: the table is linearizable: every call returns what a sequential map
\* returns at one point between its call and its return.  So a call on a key
\* whose earlier writers have all returned, one after the other, and which
\* overlaps no writer of the key, returns what the sequential map returns
\* after those writers.
C1_Linearizable ==
    \A t \in Threads :
        (th[t].pc = "end_op" /\ th[t].op # "len" /\ th[t].seq_known)
            => <<th[t].ret, th[t].found>> = th[t].seq_exp

\* C2: after put(k, v) has returned, a get(k) that overlaps no writer of k
\* returns (v, found), whatever migrations run meanwhile.
C2_PutThenGet ==
    \A t \in Threads :
        (/\ th[t].pc = "end_op" /\ th[t].op = "get"
         /\ th[t].seq_known /\ th[t].seq_by = "put")
            => /\ th[t].found
               /\ th[t].ret = th[t].seq_exp[1]

\* C3: after remove(k) has returned, found or not, a get(k) that overlaps no
\* writer of k returns (NULL, not found), slow migrators included.
C3_RemoveThenGet ==
    \A t \in Threads :
        (/\ th[t].pc = "end_op" /\ th[t].op = "get"
         /\ th[t].seq_known /\ th[t].seq_by = "remove")
            => /\ ~th[t].found
               /\ th[t].ret = NULL

C7_PutInstalls ==
    \A t \in Threads :
        (th[t].pc = "end_op" /\ th[t].op = "put")
            => /\ th[t].cas_ok
               /\ th[t].installed.item = th[t].item
               /\ th[t].found = (HIHAT_EPOCH_MASK(th[t].displaced.info) # 0)
               /\ th[t].ret = IF th[t].found THEN th[t].displaced.item ELSE NULL

\* C8: a get, put, replace or remove that reports not found returns NULL.
C8_NotFoundNull ==
    \A t \in Threads :
        (/\ th[t].pc = "end_op"
         /\ th[t].op \in {"get", "put", "replace", "remove"}
         /\ ~th[t].found)
            => th[t].ret = NULL

\* C9: add installs only over a record that is not live: it returns true after
\* its CAS replaced an empty or removed record by (item, fresh epoch) and
\* counted the item, and false, having changed nothing, after it saw a live
\* record.  An add after an add that succeeded returns false, and a get after
\* it returns the item of the first.
C9_AddIfAbsent ==
    \A t \in Threads :
        /\ (th[t].pc = "end_op" /\ th[t].op = "add")
              => /\ th[t].ret \in BOOLEAN
                 /\ th[t].ret = TRUE
                       => /\ th[t].cas_ok
                          /\ HIHAT_EPOCH_MASK(th[t].displaced.info) = 0
                          /\ th[t].installed.item = th[t].item
                          /\ HIHAT_EPOCH_MASK(th[t].installed.info) # 0
                          /\ th[t].d_count = 1
                 /\ th[t].ret = FALSE
                       => /\ ~th[t].cas_ok
                          /\ HIHAT_EPOCH_MASK(th[t].seen.info) # 0
                          /\ th[t].d_count = 0
                 /\ (th[t].seq_known /\ th[t].seq_by = "add")
                       => th[t].ret = FALSE
        /\ (/\ th[t].pc = "end_op" /\ th[t].op = "get"
            /\ th[t].seq_known /\ th[t].seq_by = "add")
              => <<th[t].ret, th[t].found>> = th[t].seq_exp

\* an add returns false on a key that an earlier add inserted
C9_Witness ==
    \E t \in Threads :
        /\ th[t].pc = "end_op" /\ th[t].op = "add"
        /\ th[t].ret = FALSE
        /\ th[t].seq_known /\ th[t].seq_by = "add"

\* C10: replace on a key without a live value returns (NULL, not found) and
\* has written no record, item_count or next_epoch; a replace installs only
\* over a live record, keeping its epoch, so it never makes an empty or
\* removed record live.
C10_ReplaceAbsent ==
    \A t \in Threads :
        (th[t].pc = "end_op" /\ th[t].op = "replace")
            => /\ th[t].d_count = 0
               /\ th[t].d_epoch = 0
               /\ ~th[t].found
                     => /\ th[t].ret = NULL
                        /\ ~th[t].cas_ok
               /\ th[t].cas_ok
                     => /\ HIHAT_EPOCH_MASK(th[t].displaced.info) # 0
                        /\ th[t].installed.info = th[t].displaced.info
               /\ (th[t].seq_known /\ th[t].seq_by = "init"
                        /\ th[t].seq_exp = <<NULL, FALSE>>)
                     => ~th[t].found
               /\ th[t].found => th[t].cas_ok

\* a replace returns not found on a key that a remove has removed
C10_Witness ==
    \E t \in Threads :
        /\ th[t].pc = "end_op" /\ th[t].op = "replace"
        /\ ~th[t].found
        /\ th[t].seq_known /\ th[t].seq_by = "remove"

\* C11: a remove that returns found has replaced a live record of its key by
\* (NULL, 0) with one successful CAS, has decremented item_count once and
\* returns the item it displaced; a remove that returns not found has written
\* no record and has not changed item_count.
C11_RemoveEffect ==
    \A t \in Threads :
        (th[t].pc = "end_op" /\ th[t].op = "remove")
            => /\ th[t].found
                     => /\ th[t].cas_ok
                        /\ HIHAT_EPOCH_MASK(th[t].displaced.info) # 0
                        /\ th[t].installed = ZeroRec
                        /\ th[t].d_count = -1
                        /\ th[t].ret = th[t].displaced.item
               /\ ~th[t].found
                     => /\ ~th[t].cas_ok
                        /\ th[t].d_count = 0
                        /\ th[t].ret = NULL

\* a remove has removed its key from the successor of the store it started on
C11_Witness ==
    \E t \in Threads :
        /\ th[t].pc = "end_op" /\ th[t].op = "remove"
        /\ th[t].found
        /\ th[t].migrations > 0

\* C12: whenever no operation is in flight, item_count (what len returns) is the
\* number of buckets of the current store whose record has a non-zero epoch.
C12_QuiescentCount ==
    (\A t \in Threads : th[t].pc = "idle")
        => item_count
             = Cardinality({b \in DOMAIN stores[store_current].buckets :
                              HIHAT_EPOCH_MASK(Bucket(store_current, b).record.info) # 0})

\* C13: no two buckets of a store hold live records with the same epoch (so a
\* sorted view is strictly ascending in sort_epoch).
C13_EpochsUnique ==
    \A s \in DOMAIN stores :
        \A b, c \in DOMAIN stores[s].buckets :
            (/\ b # c
             /\ HIHAT_EPOCH_MASK(Bucket(s, b).record.info) # 0
             /\ HIHAT_EPOCH_MASK(Bucket(s, c).record.info) # 0)
                => HIHAT_EPOCH_MASK(Bucket(s, b).record.info)
                       # HIHAT_EPOCH_MASK(Bucket(s, c).record.info)

\* C14: in every store at most one bucket holds a given hash in its hash slot.
C14_HashOnce ==
    \A s \in DOMAIN stores :
        \A b, c \in DOMAIN stores[s].buckets :
            (b # c /\ ~hatrack_bucket_unreserved(Bucket(s, b).hv))
                => Bucket(s, b).hv # Bucket(s, c).hv

\* two migrators are copying the same bucket of the same store, both past the
\* re-probe that reserved its hash in the successor
C14_Witness ==
    \E t, u \in Threads :
        /\ t # u
        /\ th[t].pc = "mig_new_rec" /\ th[u].pc = "mig_new_rec"
        /\ th[t].self = th[u].self /\ th[t].i = th[u].i
        /\ th[t].bix = th[u].bix

C17_MigrationDeterministic ==
    (\A t \in Threads : th[t].migrations > 0 /\ th[t].pc \in {"mig_ret", "put_hv"})
        => /\ Len(stores) = 2
           /\ store_current = 2
           /\ stores[1].store_next = 2
           /\ stores[2] = MigrateAlone(stores[1])

\* every thread has run the copy loop of the same migration to its end, and the
\* successor holds a live record
C17_Witness ==
    /\ \A t \in Threads : th[t].migrations > 0 /\ th[t].pc = "mig_ret"
    /\ \E b \in DOMAIN stores[store_current].buckets :
          HIHAT_EPOCH_MASK(Bucket(store_current, b).record.info) # 0

\* C18 as stated: every store is retired at most once, only by the thread whose
\* compare-and-swap replaced it in top.store_current or by delete, and never
\* while top.store_current still points to it.
C18_RetiredNotCurrent ==
    \A s \in DOMAIN stores :
        /\ stores[s].retired <= 1
        /\ stores[s].retired = 1 => s # store_current

\* C18, amended: every store is retired at most once, and only by the thread
\* whose compare-and-swap has just replaced it in top.store_current or by
\* delete; a store a migrator retired is no longer the one top.store_current
\* points to, whereas delete retires the very store top.store_current points
\* to, before it frees the top.
C18_RetireOnce ==
    /\ [](\A s \in DOMAIN stores :
            /\ stores[s].retired <= 1
            /\ (stores[s].retired = 1 /\ s = store_current)
                  => \E t \in Threads : th[t].pc = "delete_free" /\ th[t].self = s)
    /\ [][\A s \in DOMAIN stores :
            (/\ Len(stores') = Len(stores)
             /\ stores'[s].retired > stores[s].retired)
               => /\ stores[s].retired = 0
                  /\ store_current = s
                  /\ \E t \in Threads :
                        \/ /\ th[t].pc = "mig_publish" /\ th'[t].pc = "mig_ret"
                           /\ th[t].self = s
                           /\ store_current' = th[t].new_store
                           /\ store_current' # s
                        \/ /\ th[t].pc = "idle" /\ th'[t].pc = "delete_free"
                           /\ store_current' = s]_vars

\* delete has retired the current store of a table that migrated before, and
\* has not freed the top yet
C18_Witness ==
    \E t \in Threads :
        /\ th[t].pc = "delete_free"
        /\ stores[store_current].retired = 1
        /\ stores[store_current].last_slot + 1 > HATRACK_MIN_SIZE

\* C19: no store is freed while a thread is inside an operation that loaded it
\* from top.store_current or store_next: a thread holds a store only between
\* mmm_start_basic_op and mmm_end_op, under a reservation, and a store such a
\* thread holds is never one the memory manager has freed, so no operation
\* reads or CASes a bucket of a freed store.
C19_NoUseAfterFree ==
    \A t \in Threads :
        \A p \in {th[t].self, th[t].new_store} \ {NULL} :
            /\ th[t].pc # "idle"
            /\ mmm.reservations[t] # 0
            /\ ~mmm.headers[mmm.base + p].freed

\* a retired store has been freed, and every thread is inside an operation
\* and holds a store
C19_Witness ==
    /\ \E a \in DOMAIN mmm.headers : mmm.headers[a].freed
    /\ \A t \in Threads : th[t].self # NULL /\ mmm.reservations[t] # 0

\* C20: hatrack_set_disjunction returns a set that holds exactly the items
\* whose hash value is in exactly one of the two views (the symmetric
\* difference), also when one view is empty or has entries left when the other
\* is exhausted.
C20_SymmetricDifference ==
    set_op.pc = "returned"
        => LET In(view) == {view[k] : k \in 1..Len(view)}
               hvs(view) == {e.hv : e \in In(view)}
           IN  In(set_op.ret)
                  = {e \in In(set_op.view1) : e.hv \notin hvs(set_op.view2)}
                    \cup {e \in In(set_op.view2) : e.hv \notin hvs(set_op.view1)}

\* C21: for views with num2 <= num1, hatrack_set_is_superset returns true iff
\* every hash value of view2 is in view1 (and, when proper, the two views
\* differ in size), and while deciding it never reads view1 at an index >= num1.
C21_IsSuperset ==
    (/\ set_op.pc = "is_superset_returned"
     /\ Len(set_op.view2) <= Len(set_op.view1))
        => LET hvs(view) == {view[k].hv : k \in 1..Len(view)}
           IN  /\ set_op.answer
                    = (/\ hvs(set_op.view2) \subseteq hvs(set_op.view1)
                       /\ set_op.proper
                             => Len(set_op.view1) # Len(set_op.view2))
               /\ ~set_op.oob

\* C22: hatrack_set_union returns a set that holds exactly the hash values of
\* either view, each once, inserted in the order of the merge of the two views
\* by ascending sort epoch, a hash value of both views with the entry the merge
\* reaches first.
C22_UnionInEpochOrder ==
    set_op.pc = "union_returned"
        => LET E      == {set_op.view1[k] : k \in 1..Len(set_op.view1)}
                          \cup {set_op.view2[k] : k \in 1..Len(set_op.view2)}
               first  == {e \in E : \A f \in E :
                             f.hv = e.hv => e.sort_epoch <= f.sort_epoch}
               rank(e) == Cardinality({f \in first : f.sort_epoch <= e.sort_epoch})
           IN  /\ Len(set_op.ret) = Cardinality({e.hv : e \in E})
               /\ \A e \in first :
                     set_op.ret[rank(e)] = [hv |-> e.hv, item |-> e.item]

\* C23: whenever put or replace has compare-and-swapped successfully over a
\* live record, the epoch of the record it installed is the epoch of the record
\* that compare-and-swap displaced - also when the compare-and-swap loop of
\* replace retries after the key was removed and inserted again.
C23_EpochKept ==
    \A t \in Threads :
        (/\ th[t].op \in {"put", "replace"}
         /\ th[t].cas_ok
         /\ HIHAT_EPOCH_MASK(th[t].displaced.info) # 0)
            => HIHAT_EPOCH_MASK(th[t].installed.info)
                  = HIHAT_EPOCH_MASK(th[t].displaced.info)

\* C24: freezing a bucket changes only its flag bits: the record a migrator
\* installs when it sets MOVING has the item and the epoch of the record it
\* replaces, with MOVING alone over a live record and MOVING and MOVED over a
\* tombstone or an empty record - also when a writer changed the record between
\* the migrator's first read and its successful compare-and-swap.
C24_FreezeOnlyFlags ==
    [][\A t \in Threads :
          LET l   == th[t]
              old == Bucket(l.self, l.i).record
              new == stores'[l.self].buckets[l.i].record
          IN  (/\ l.pc = "mig_frz_cas"
               /\ old = l.record
               /\ (th'[t].pc # l.pc \/ th'[t].i # l.i))
                 => /\ new.item = old.item
                    /\ HIHAT_EPOCH_MASK(new.info) = HIHAT_EPOCH_MASK(old.info)
                    /\ HIHAT_F_MOVING(new.info)
                    /\ HIHAT_F_MOVED(new.info) = (old.info = ZeroInfo)]_vars

\* C25: once a record has MOVING set no put, add, replace or remove changes it:
\* no compare-and-swap of a writer succeeds over a record with MOVING; a writer
\* that reads MOVING, or whose compare-and-swap fails against a record with
\* MOVING, leaves the stores as they are and enters hihat_a_store_migrate; and
\* a writer that comes back from hihat_a_store_migrate starts the same
\* operation again, with the same arguments, on a store of the table.
C25_FrozenFromWriters ==
    /\ [](\A t \in Threads :
             th[t].cas_ok => ~HIHAT_F_MOVING(th[t].displaced.info))
    /\ [][\A t \in Threads :
             LET l == th[t]
             IN  /\ (/\ l.pc \in {"put_rec", "put_cas", "replace_rec",
                                  "replace_cas", "add_rec", "add_cas",
                                  "remove_rec", "remove_cas"}
                     /\ HIHAT_F_MOVING(Bucket(l.self, l.bix).record.info)
                     /\ th'[t].pc # l.pc)
                       => /\ stores' = stores
                          /\ th'[t].pc = "mig_cur"
                          /\ th'[t].self = l.self
                          /\ ~th'[t].cas_ok
                 /\ (/\ l.op \in {"put", "add", "replace", "remove"}
                     /\ l.pc \in {"mig_cur", "mig_sleep1_cur", "mig_sleep2_cur",
                                  "mig_ret"}
                     /\ th'[t].pc \in {"put_hv", "add_hv", "replace_hv",
                                       "remove_hv", "get_hv", "end_op", "idle"})
                       => /\ th'[t].pc = l.op \o "_hv"
                          /\ th'[t].op = l.op
                          /\ th'[t].hv1 = l.hv1
                          /\ th'[t].item = l.item
                          /\ th'[t].self \in DOMAIN stores'
                          /\ stores' = stores \/ Len(stores') < Len(stores)]_vars

\* a remove met a record with MOVING, went through hihat_a_store_migrate and
\* then removed its key from the store that call returned
C25_Witness ==
    \E t \in Threads :
        /\ th[t].op = "remove"
        /\ th[t].pc = "end_op"
        /\ th[t].migrations >= 1
        /\ th[t].cas_ok

\* C26: top->next_epoch advances by exactly one for each successful
\* empty -> live or tombstone -> live transition and by nothing else: an
\* operation that has returned advanced next_epoch once if its
\* compare-and-swap installed a live record over a record without an epoch,
\* and not at all otherwise (an update of a live bucket, an add that returns
\* false, a put or add whose compare-and-swap was lost, get, replace, remove).
C26_EpochPerInsertion ==
    \A t \in Threads :
        th[t].pc = "end_op"
            => th[t].d_epoch
                 = IF /\ th[t].op \in {"put", "add"}
                      /\ th[t].cas_ok
                      /\ HIHAT_EPOCH_MASK(th[t].displaced.info) = 0
                      /\ HIHAT_EPOCH_MASK(th[t].installed.info) # 0
                   THEN 1 ELSE 0

\* C27: a bucket's hash slot is install-once: in every store, once a bucket's
\* hv is not the unreserved value no step of any operation or migrator changes
\* it, for as long as the store exists (a remove leaves the hv in place over
\* its tombstone, a writer that claimed a slot and then migrates leaves the
\* slot claimed).
C27_HashInstallOnce ==
    [][\A n \in DOMAIN stores' :
          (n + Dropped) \in DOMAIN stores
             => \A b \in DOMAIN stores[n + Dropped].buckets :
                   ~hatrack_bucket_unreserved(stores[n + Dropped].buckets[b].hv)
                      => stores'[n].buckets[b].hv
                            = stores[n + Dropped].buckets[b].hv]_vars

\* a remove has returned after its compare-and-swap, and the bucket of its key
\* holds a tombstone under the key's hash
C27_Witness ==
    \E t \in Threads :
        /\ th[t].op = "remove"
        /\ th[t].pc = "end_op"
        /\ th[t].cas_ok
        /\ \E s \in DOMAIN stores :
              \E b \in DOMAIN stores[s].buckets :
                 /\ Bucket(s, b).hv = th[t].hv1
                 /\ Bucket(s, b).record = ZeroRec

\* C28: MOVING is monotonic within a store: once a bucket's record has MOVING
\* set, every later value of that record has MOVING set, under every
\* interleaving of writers and migrators.
C28_MovingMonotonic ==
    [][\A n \in DOMAIN stores' :
          (n + Dropped) \in DOMAIN stores
             => \A b \in DOMAIN stores[n + Dropped].buckets :
                   HIHAT_F_MOVING(stores[n + Dropped].buckets[b].record.info)
                      => HIHAT_F_MOVING(stores'[n].buckets[b].record.info)]_vars

\* a live record that was frozen and then marked as moved by the copy loop,
\* while some thread works on a later store
C28_Witness ==
    \E s \in DOMAIN stores :
        \E b \in DOMAIN stores[s].buckets :
            /\ HIHAT_EPOCH_MASK(Bucket(s, b).record.info) # 0
            /\ HIHAT_F_MOVING(Bucket(s, b).record.info)
            /\ HIHAT_F_MOVED(Bucket(s, b).record.info)

\* C29: in every reachable state every record that has MOVED set also has
\* MOVING set - the records of a store whose late migrator skipped the freeze
\* loop, because store_next was already installed, included.
C29_MovedImpliesMoving ==
    \A s \in DOMAIN stores :
        \A b \in DOMAIN stores[s].buckets :
            HIHAT_F_MOVED(Bucket(s, b).record.info)
                => HIHAT_F_MOVING(Bucket(s, b).record.info)

\* a late migrator has waited twice and is about to enter the copy loop
\* without having frozen anything, in a store with a live record already
\* marked as moved
C29_Witness ==
    \E t \in Threads :
        /\ th[t].pc = "mig_sleep2_cur"
        /\ th[t].new_store # NULL
        /\ th[t].new_store # store_current
        /\ \E b \in DOMAIN stores[th[t].self].buckets :
              /\ HIHAT_EPOCH_MASK(Bucket(th[t].self, b).record.info) # 0
              /\ HIHAT_F_MOVED(Bucket(th[t].self, b).record.info)

\* C30: in every reachable state, if a store's store_next pointer is non-null
\* then every bucket record of that store has MOVING set (which is what lets a
\* late migrator go to the copy loop without freezing).
C30_NextImpliesFrozen ==
    \A s \in DOMAIN stores :
        stores[s].store_next # NULL
            => \A b \in DOMAIN stores[s].buckets :
                  HIHAT_F_MOVING(Bucket(s, b).record.info)

\* a late migrator found store_next installed and waits, in a store with more
\* than one bucket
C30_Witness ==
    \E t \in Threads :
        /\ th[t].pc \in {"mig_sleep1_next", "mig_sleep1_cur",
                         "mig_sleep2_next", "mig_sleep2_cur"}
        /\ stores[th[t].self].store_next # NULL
        /\ stores[th[t].self].last_slot >= 1

\* C31: whenever hihat_a_store_migrate(self, top) returns a store S, S is not
\* self, top->store_current is no longer self, and every bucket record of self
\* has MOVED set - on the fast path, on both wait paths and on the full path.
C31_MigrateReturnsAfterMigration ==
    [][\A t \in Threads :
          LET l == th[t]
          IN  (/\ l.pc \in {"mig_cur", "mig_sleep1_cur", "mig_sleep2_cur",
                            "mig_ret"}
               /\ th'[t].pc \in {"put_hv", "add_hv", "replace_hv", "remove_hv"})
                 => /\ th'[t].self + Dropped # l.self
                    /\ store_current # l.self
                    /\ \A b \in DOMAIN stores[l.self].buckets :
                          HIHAT_F_MOVED(Bucket(l.self, b).record.info)]_vars

\* one thread is back from hihat_a_store_migrate and probes the store it was
\* given, while another waits on the store that was migrated and is about to
\* find top->store_current equal to its store_next
C31_Witness ==
    \E t, u \in Threads :
        /\ th[t].migrations >= 1
        /\ th[t].pc \in {"put_hv", "add_hv", "replace_hv", "remove_hv"}
        /\ th[t].self = store_current
        /\ th[u].pc \in {"mig_sleep1_cur", "mig_sleep2_cur"}
        /\ th[u].new_store = store_current
        /\ th[u].self # store_current

\* C32: in the wait variant, a migrator that found store_next already set and,
\* after a sleep, observes that top->store_current is no longer its own store
\* returns at once, without freezing or copying any bucket - also when
\* top->store_current has advanced more than one generation past its store.
C32_WaitReturnsOnceAdvanced ==
    [][\A t \in Threads :
          LET l == th[t]
          IN  (/\ l.pc \in {"mig_sleep1_cur", "mig_sleep2_cur"}
               /\ store_current # l.self
               /\ th'[t].pc # l.pc)
                 => /\ th'[t].pc \in {"put_hv", "add_hv", "replace_hv",
                                      "remove_hv"}
                    /\ th'[t].self = store_current']_vars

\* C33: get, view and len modify no shared state: no step of theirs changes a
\* bucket's hv or record, used_count, store_next, store_current, item_count or
\* next_epoch, none of them enters the migration, and a get that finds MOVING
\* on its record answers from that record, in the store it loaded at entry.
C33_ReadersChangeNothing ==
    [][\A t \in Threads :
          LET l      == th[t]
              record == Bucket(l.self, l.bix).record
          IN  (/\ l.op \in {"get", "view", "len"}
               /\ l.pc # "idle"
               /\ <<th'[t].pc, th'[t].i, th'[t].bix>> # <<l.pc, l.i, l.bix>>)
                 => /\ item_count' = item_count
                    /\ next_epoch' = next_epoch
                    /\ store_current' + Dropped = store_current
                    /\ Len(stores') = Len(stores) - Dropped
                    /\ \A n \in DOMAIN stores' :
                          stores'[n] = [stores[n + Dropped] EXCEPT
                                           !.store_next = Shift(@, Dropped)]
                    /\ th'[t].pc \in {"get_hv", "get_rec", "view_rec",
                                      "view_ret", "end_op", "idle"}
                    /\ l.pc = "get_rec"
                          => /\ th'[t].pc = "end_op"
                             /\ th'[t].found
                                   = (HIHAT_EPOCH_MASK(record.info) # 0)
                             /\ th'[t].ret
                                   = IF HIHAT_EPOCH_MASK(record.info) # 0
                                     THEN record.item ELSE NULL]_vars

\* a get has answered with the item of a record that had MOVING set
C33_Witness ==
    \E t \in Threads :
        /\ th[t].op = "get"
        /\ th[t].pc = "end_op"
        /\ th[t].found
        /\ HIHAT_F_MOVING(th[t].seen.info)

C36_PublishedClean ==
    \A t \in Threads :
       LET l == th[t]
       IN  (l.pc = "mig_publish" /\ store_current = l.self)
              => /\ \A b \in DOMAIN stores[l.new_store].buckets :
                       LET nb == Bucket(l.new_store, b)
                       IN  ~hatrack_bucket_unreserved(nb.hv)
                              => /\ HIHAT_EPOCH_MASK(nb.record.info) # 0
                                 /\ ~HIHAT_F_MOVING(nb.record.info)
                                 /\ ~HIHAT_F_MOVED(nb.record.info)
                 /\ \A i \in DOMAIN stores[l.self].buckets :
                       LET ob == Bucket(l.self, i)
                       IN  (/\ ~hatrack_bucket_unreserved(ob.hv)
                            /\ HIHAT_EPOCH_MASK(ob.record.info) = 0)
                              => \A b \in DOMAIN stores[l.new_store].buckets :
                                    Bucket(l.new_store, b).hv # ob.hv

\* a migrator is about to publish a successor store that holds a live record,
\* from an old store with a claimed bucket whose record has a zero epoch
C36_Witness ==
    \E t \in Threads :
       LET l == th[t]
       IN  /\ l.pc = "mig_publish"
           /\ store_current = l.self
           /\ \E b \in DOMAIN stores[l.new_store].buckets :
                 HIHAT_EPOCH_MASK(Bucket(l.new_store, b).record.info) # 0
           /\ \E i \in DOMAIN stores[l.self].buckets :
                 /\ ~hatrack_bucket_unreserved(Bucket(l.self, i).hv)
                 /\ HIHAT_EPOCH_MASK(Bucket(l.self, i).record.info) = 0

\* C37: a view that no writer overlaps returns one entry (item, epoch bits
\* without the flags) for each bucket of the store it loaded at entry whose
\* record has a non-zero epoch, sets *num to their number, returns NULL exactly
\* when there is none, and with sort the entries are in ascending sort_epoch.
C37_ViewOfQuiescent ==
    [][\A t \in Threads :
          LET l    == th[t]
              r    == th'[t]
              live == {b \in DOMAIN stores[l.self].buckets :
                         HIHAT_EPOCH_MASK(Bucket(l.self, b).record.info) # 0}
          IN  (l.pc = "view_ret" /\ r.pc = "end_op" /\ l.seq_free)
                 => /\ r.num = Cardinality(live)
                    /\ Len(r.view) = r.num
                    /\ \E f \in [1..r.num -> live] :
                          /\ \A a, b \in 1..r.num : a # b => f[a] # f[b]
                          /\ \A k \in 1..r.num :
                                LET rec == Bucket(l.self, f[k]).record
                                IN  r.view[k]
                                      = [item       |-> rec.item,
                                         sort_epoch |-> HIHAT_EPOCH_MASK(rec.info)]
                    /\ (r.ret = NULL) = (r.num = 0)
                    /\ l.item # NULL
                          => \A k \in 1..(r.num - 1) :
                                r.view[k].sort_epoch <= r.view[k + 1].sort_epoch]_vars

\* a sorted view of two entries that no writer overlapped has returned, from a
\* store whose buckets hold the two records in descending epoch
C37_Witness ==
    \E t \in Threads :
       /\ th[t].pc = "end_op"
       /\ th[t].op = "view"
       /\ th[t].seq_free
       /\ th[t].item # NULL
       /\ th[t].num = 2
       /\ th[t].view[1].sort_epoch < th[t].view[2].sort_epoch
       /\ stores[store_current].last_slot = 1
       /\ HIHAT_EPOCH_MASK(Bucket(store_current, 0).record.info)
             > HIHAT_EPOCH_MASK(Bucket(store_current, 1).record.info)

\* C38: in the dictionary every item record is handed to the memory manager
\* exactly once and never while it is installed.  At every moment an item
\* record is in exactly one place: installed in the table, in the hands of one
\* call that has not yet passed it on (a new item not yet offered to the
\* table, a displaced item not yet retired, a refused new item not yet given
\* to mmm_retire_unused), or handed to the memory manager once.  The end of
\* hatrack_dict_put, hatrack_dict_replace and hatrack_dict_remove retires the
\* displaced item once when the table returned one and nothing else, and the
\* end of hatrack_dict_replace and hatrack_dict_add gives the new item to
\* mmm_retire_unused exactly when the table did not install it, returning
\* false then and true otherwise.
C38_ItemsToSMROnce ==
    /\ [](\A k \in DOMAIN dict.items :
             LET installed == {hv \in 1..DictKeys : dict.witchhat_instance[hv] = k}
                 holders   == {t \in Threads :
                                 LET l == dict.th[t]
                                 IN  \/ l.pc \in {"put", "replace", "add"}
                                          /\ l.new_item = k
                                     \/ l.pc \in {"put_end", "replace_end",
                                                  "remove_end"}
                                          /\ l.old_item = k
                                     \/ l.pc = "replace_end"
                                          /\ l.old_item = NULL /\ l.new_item = k
                                     \/ l.pc = "add_end"
                                          /\ ~l.added /\ l.new_item = k}
             IN  Cardinality(installed) + Cardinality(holders)
                    + dict.items[k].retired + dict.items[k].unused = 1)
    /\ [][\A t \in Threads :
             LET l   == dict.th[t]
                 r   == dict'.th[t]
                 old == IF l.old_item # NULL /\ l.pc # "add_end"
                        THEN {l.old_item} ELSE {}
                 new == IF \/ l.pc = "replace_end" /\ l.old_item = NULL
                           \/ l.pc = "add_end" /\ ~l.added
                        THEN {l.new_item} ELSE {}
             IN  (l.pc \in {"put_end", "replace_end", "add_end", "remove_end"}
                    /\ r.pc = "idle")
                    => /\ \A k \in DOMAIN dict.items :
                           /\ dict'.items[k].retired
                                 = dict.items[k].retired
                                      + (IF k \in old THEN 1 ELSE 0)
                           /\ dict'.items[k].unused
                                 = dict.items[k].unused
                                      + (IF k \in new THEN 1 ELSE 0)
                       /\ l.pc \in {"replace_end", "add_end"}
                             => r.ret = (new = {})]_vars

\* no call is in progress; one item record is installed, one was displaced and
\* retired, and one was refused by the table and given to mmm_retire_unused
C38_Witness ==
    /\ \A t \in Threads : dict.th[t].pc = "idle"
    /\ \E hv \in 1..DictKeys : dict.witchhat_instance[hv] # NULL
    /\ \E k \in DOMAIN dict.items : dict.items[k].retired = 1
    /\ \E k \in DOMAIN dict.items : dict.items[k].unused = 1

====
